---- MODULE Spec2Model ----
(***************************************************************************)
(* A model of the Quantum OS coordination layer:                           *)
(*   - kernel_services/src/task.rs      HybridScheduler                    *)
(*   - quantum_runtime/src/async_runtime.rs  AsyncQuantumExecutionEngine   *)
(*   - quantum_runtime/src/streaming.rs BackpressureHandler, ReplayBuffer, *)
(*                                      MeasurementStreamServer            *)
(* Every lock acquisition, atomic load/store and await of the source is    *)
(* one step; steps of different threads/tasks interleave freely.           *)
(***************************************************************************)
EXTENDS Integers, Sequences, FiniteSets, TLC

\* ------------------------------------------------------------------ bounds
\* Jobs and processes handed to the HybridScheduler in one run.
MaxJobs == 3
\* Circuits handed to AsyncQuantumExecutionEngine in one run (submit_job,
\* execute_circuit_async and execute_with_timeout together).
MaxEngineJobs == 2
\* Threads calling HybridScheduler::start_next_quantum_job concurrently.
NumThreads == 2
\* Largest max_concurrent_quantum_jobs / max_concurrent_jobs tried.
MaxCap == 2
\* CancellationToken values (new, child_token, clone) in one run.
MaxTokens == 4
\* Tasks calling CancellationToken::cancelled() in one run.
NumWaiters == 2

\* DatagramStats.sent takes the values 0 and MaxSent when the statistics are
\* stored directly; 19 of 20 received is a loss of exactly 5%.
MaxSent == 20
\* Mode switches counted by the evaluator in one run.
MaxSwitches == 3
\* Largest evaluation_window, in clock ticks.
MaxWindow == 2
\* Tasks calling DatagramChannel::send_measurement concurrently, and the
\* send_measurement calls of one run.
NumSenders == 2
MaxSends == 4
\* Receivers subscribed to the datagram channel at one time.
MaxReceivers == 1

\* Longest batch, and the circuits and shot counts its pairs are drawn from.
MaxBatch == 2
NumCircuits == 2
MaxShots == 2

\* Largest circuit: qubits and gates; execute calls on one circuit.
MaxQubits == 2
MaxGates == 2
\* Gates applied to one state buffer.
MaxApplied == 2
MaxRegister == 3
MaxEntries == 2
\* rand_simple() returns one of these, in quarters.
RandomQuarters == 0..3

\* Tasks calling BackpressureHandler / publish_measurement concurrently.
NumPublishers == 2
\* Largest backpressure_threshold tried.
MaxThreshold == 3
\* Bits of the model's usize; AtomicUsize arithmetic wraps at 2^UsizeBits.
UsizeBits == 16
\* release() calls a task makes beyond the slots it holds.
MaxUnmatched == 1
\* Largest ReplayBuffer capacity tried (the smallest is 0).
MaxReplay == 3
\* ReplayBuffer::push calls in one run of the buffer on its own.
MaxPushes == 5
\* subscribe calls in one run of the streaming server, numbered in the order
\* they are made.
NumSubscribers == 1
\* Largest message_buffer_size (mailbox capacity) tried; tokio's mpsc::channel
\* needs at least 1.
MaxMailbox == 2
\* Largest statistics_interval_shots tried.
MaxInterval == 2
\* The aggregator on its own: largest emit interval, most add_measurement calls
\* between two resets, bits per measurement and largest value of a bit's byte.
MaxEmitInterval == 5
MaxAdds == 10
NumBits == 1
MaxBitValue == 2

\* ------------------------------------------------------- program constants
\* QuantumJobPriority: Background = 0 .. Critical = 3.
Background == 0
Normal == 1
Critical == 3
\* ProcessPriority: Idle = 0 .. Realtime = 4.
Idle == 0
Realtime == 4

QuantumJobPriority == Background..Critical
ProcessPriority == Idle..Realtime
Threads == 1..NumThreads

VARIABLES
    \* ---- HybridScheduler (task.rs:202-207)
    classical_ready_queue,        \* VecDeque<ProcessContext>
    quantum_job_queue,            \* VecDeque<QuantumJobContext>
    running_quantum_jobs,         \* Vec<QuantumJobContext>
    max_concurrent_quantum_jobs,  \* usize
    sched_pc,                     \* position of each thread in start_next_quantum_job
    sched_job,                    \* the job a thread popped and has not yet inserted
    complete_ret,                 \* what the last complete_quantum_job call returned
    jobs_submitted,               \* number of submit_quantum_job calls so far
    procs_enqueued,               \* number of enqueue_process calls so far
    jobs_completed,               \* complete_quantum_job calls that returned a job
    \* ---- AsyncQuantumExecutionEngine (async_runtime.rs:39-45)
    active_jobs,                  \* job id -> JobHandle {status, cancellation flag}
    job_semaphore,                \* permits currently available
    max_concurrent_jobs,          \* usize
    worker_pc,                    \* position of each job's spawned worker task
    exec_outcome,                 \* what spawn_blocking(...).await returned
    result_channel,               \* the job's oneshot result channel
    cancel_seen_at,               \* worker position when the token was first cancelled
    await_ret,                    \* what awaiting each job's QuantumJobFuture returned
    calls,                        \* the execute_circuit_async / execute_with_timeout calls
    \* ---- CancellationToken (async_runtime.rs:480-522)
    tokens,                       \* the tokens made so far: which flag each shares
    cancelled,                    \* one AtomicBool per CancellationToken::new()
    notify_registered,            \* per Notify: the tasks waiting in notified()
    waiter_pc,                    \* position of each task in cancelled()
    waiter_token,                 \* the token each task waits on
    cancel_pc,                    \* position of the task calling cancel()
    cancel_token,                 \* the token cancel() was called on
    \* ---- BackpressureHandler (streaming.rs:357-361)
    pending_count,                \* AtomicUsize
    threshold,                    \* usize
    notify_permit,                \* tokio Notify: a stored notify_one permit
    notify_waiters,               \* tokio Notify: tasks parked in notified().await
    bp_pc,                        \* position of each task in check_and_wait / release
    bp_held,                      \* acquisitions of each task not yet released
    \* ---- ReplayBuffer (streaming.rs:398-402)
    rb_buffer,                    \* VecDeque<StreamingMessage>
    rb_capacity,                  \* usize
    rb_message_id,                \* AtomicU64
    rb_pushes,                    \* number of push calls so far
    \* ---- MeasurementStreamServer, one job id (streaming.rs:137-182)
    job_registered,               \* jobs contains the job id
    message_buffer_size,          \* config: capacity of each subscriber mailbox
    emit_interval,                \* StreamAggregator.emit_interval
    total_count,                  \* StreamAggregator.total_count
    since_last_emit,              \* StreamAggregator.since_last_emit
    bitstring_counts,             \* StreamAggregator.bitstring_counts
    agg_adds,                     \* add_measurement calls since new() or reset()
    subscribers,                  \* subscribers[job_id]: Vec<SubscriberHandle>
    mailbox,                      \* per subscriber: every message its channel accepted
    read_count,                   \* per subscriber: how many of them were received
    sub_pc,                       \* position of each subscribe call
    sub_replay,                   \* the replay snapshot still to be sent
    sub_call,                     \* each subscribe call: its payload, whether it found
                                  \* the job, publishes begun when it was made
    pub_pc,                       \* position of each task in publish_measurement
    pub_event,                    \* shot index of the event a task is publishing
    pub_emit,                     \* should_emit_stats
    pub_msg,                      \* the message broadcast_to_job is fanning out
    pub_idx,                      \* broadcast_to_job's position in the subscriber list
    pub_ret,                      \* what a task's last publish_measurement returned
    events_started,               \* publish_measurement calls that found the job
    complete_pc,                  \* position of the task calling complete_job
    complete_idx,                 \* its position in broadcast_to_job's loop
    complete_total_shots,         \* total_shots of the statistics it has read
    complete_job_ret,             \* what complete_job returned
    receiver_dropped,             \* per subscriber: its mpsc::Receiver was dropped
    \* ---- HybridTransport and DatagramChannel (webtransport.rs)
    transport_mode,               \* HybridTransport.mode
    mode_switches,                \* HybridMetrics.mode_switches
    current_loss_rate,            \* HybridMetrics.current_loss_rate
    stats_sent,                   \* DatagramStats.sent
    stats_received,               \* DatagramStats.received
    eval_pc,                      \* position of the task inside evaluate_and_adapt
    eval_current_mode,            \* its local current_mode
    eval_new_mode,                \* its local new_mode
    evaluation_window,            \* AdaptationConfig.evaluation_window, in clock ticks
    elapsed,                      \* ticks since the evaluator last switched (or since
                                  \* new()), counted up to evaluation_window
    dg_sequence,                  \* DatagramChannel.sequence
    dg_receivers,                 \* receivers of the channel's broadcast sender
    dg_pc,                        \* position of each task inside send_measurement
    dg_seq,                       \* its local seq
    dg_ret,                       \* what its last send_measurement returned
    dg_assigned,                  \* the values of seq, in the order of the fetch_adds
    \* ---- BatchExecutor (async_runtime.rs)
    batch_pc,                     \* position of the execute_batch call
    batch_circuits,               \* its argument: the (circuit, shots) pairs
    batch_tasks,                  \* the spawned tasks, in the order of handles
    batch_results,                \* its local results
    batch_finished,               \* the tasks in the order in which they finished
    batch_completed,              \* the counter of execute_batch_with_progress
    batch_progress,               \* the progress_callback calls, in order
    \* ---- QuantumCircuitStructure and CircuitExecutor (circuit_program.rs, execution.rs)
    number_of_quantum_bits,       \* QuantumCircuitStructure.number_of_quantum_bits
    gate_application_instances,   \* QuantumCircuitStructure.gate_application_instances
    execute_shots,                \* the shots argument of the last execute call
    execution_result,             \* what the last execute call returned
    state_vector,                 \* a QuantumStateVector that gates are applied to
    gates_applied,                \* number of gates applied to it so far
    \* ---- GateMatrixCache (optimization.rs)
    cache,                        \* GateMatrixCache.cache
    max_entries,                  \* GateMatrixCache.max_entries
    cache_ret,                    \* what the last call on the cache returned
    cache_last                    \* the last call on the cache

sched_vars == <<classical_ready_queue, quantum_job_queue, running_quantum_jobs,
                max_concurrent_quantum_jobs, sched_pc, sched_job, complete_ret,
                jobs_submitted, procs_enqueued, jobs_completed>>
call_vars == <<await_ret, calls>>
token_vars == <<tokens, cancelled, notify_registered, waiter_pc, waiter_token,
                cancel_pc, cancel_token>>
engine_vars == <<active_jobs, job_semaphore, max_concurrent_jobs, worker_pc,
                 exec_outcome, result_channel, cancel_seen_at, call_vars>>
bp_vars == <<pending_count, threshold, notify_permit, notify_waiters, bp_pc, bp_held>>
rb_vars == <<rb_buffer, rb_capacity, rb_message_id, rb_pushes>>
agg_vars == <<emit_interval, total_count, since_last_emit, bitstring_counts, agg_adds>>
sub_vars == <<subscribers, mailbox, read_count, sub_pc, sub_replay, sub_call>>
pub_vars == <<pub_pc, pub_event, pub_emit, pub_msg, pub_idx, pub_ret, events_started>>
hybrid_vars == <<transport_mode, mode_switches, current_loss_rate, stats_received,
                 eval_pc, eval_current_mode, eval_new_mode, evaluation_window, elapsed>>
datagram_vars == <<dg_sequence, dg_receivers, dg_pc, dg_seq, dg_ret, dg_assigned>>
transport_vars == <<hybrid_vars, datagram_vars, stats_sent>>
batch_vars == <<batch_pc, batch_circuits, batch_tasks, batch_results, batch_finished,
                batch_completed, batch_progress>>
execution_vars == <<execute_shots, execution_result, state_vector, gates_applied>>
circuit_vars == <<number_of_quantum_bits, gate_application_instances, execution_vars>>
cache_vars == <<cache, max_entries, cache_ret, cache_last>>
complete_vars == <<complete_pc, complete_idx, complete_total_shots, complete_job_ret>>
server_vars == <<job_registered, message_buffer_size, agg_vars, sub_vars, pub_vars,
                 complete_vars, receiver_dropped>>
vars == <<sched_vars, engine_vars, token_vars, transport_vars, batch_vars, circuit_vars,
          cache_vars, bp_vars, rb_vars, server_vars>>

\* Circuits the engine has been given so far.
Executions == Len(active_jobs) + Len(calls)

\* Jobs and processes the scheduler has been given so far.
Created == jobs_submitted + procs_enqueued

\* =========================================================================
\* 1. HybridScheduler
\* =========================================================================
NoJob == [id |-> 0, priority |-> Background, status |-> "None",
          started_at |-> FALSE, completed_at |-> FALSE]

\* QuantumJobContext::new(...).with_priority(p): status Queued, no timestamps.
NewQuantumJob(i, p) == [id |-> i, priority |-> p, status |-> "Queued",
                        started_at |-> FALSE, completed_at |-> FALSE]

\* ProcessContext::new(..).with_priority(p)
NewProcess(i, p) == [id |-> i, priority |-> p]

mark_started(job) == [job EXCEPT !.started_at = TRUE, !.status = "Executing"]

mark_completed(job) == [job EXCEPT !.completed_at = TRUE, !.status = "Completed"]

\* One insertion of the stable sort: x goes after the last entry whose priority
\* is >= x's (Vec::sort_by is stable, the comparator is b.priority.cmp(a.priority)).
RECURSIVE InsertByPriority(_, _)
InsertByPriority(s, x) ==
    IF s = <<>> THEN <<x>>
    ELSE IF Head(s).priority >= x.priority
         THEN <<Head(s)>> \o InsertByPriority(Tail(s), x)
         ELSE <<x>> \o s

\* The sort with the comparator's operands exchanged (a.priority.cmp(b.priority)).
RECURSIVE InsertByPriorityAsc(_, _)
InsertByPriorityAsc(s, x) ==
    IF s = <<>> THEN <<x>>
    ELSE IF Head(s).priority <= x.priority
         THEN <<Head(s)>> \o InsertByPriorityAsc(Tail(s), x)
         ELSE <<x>> \o s

RECURSIVE SortByPriorityAsc(_)
SortByPriorityAsc(s) ==
    IF s = <<>> THEN <<>>
    ELSE InsertByPriorityAsc(SortByPriorityAsc(SubSeq(s, 1, Len(s) - 1)), s[Len(s)])

\* A sort that puts an entry before the entries of its own priority.
RECURSIVE InsertBeforeEqual(_, _)
InsertBeforeEqual(s, x) ==
    IF s = <<>> THEN <<x>>
    ELSE IF Head(s).priority > x.priority
         THEN <<Head(s)>> \o InsertBeforeEqual(Tail(s), x)
         ELSE <<x>> \o s

RECURSIVE SortByPriorityUnstable(_)
SortByPriorityUnstable(s) ==
    IF s = <<>> THEN <<>>
    ELSE InsertBeforeEqual(SortByPriorityUnstable(SubSeq(s, 1, Len(s) - 1)), s[Len(s)])

RECURSIVE SortByPriorityDesc(_)
SortByPriorityDesc(s) ==
    IF s = <<>> THEN <<>>
    ELSE InsertByPriority(SortByPriorityDesc(SubSeq(s, 1, Len(s) - 1)), s[Len(s)])

sort_classical_queue(queue) == SortByPriorityDesc(queue)

sort_quantum_queue(queue) == SortByPriorityDesc(queue)

\* The quantum_job_queue write guard is held from the pop to the return of
\* start_next_quantum_job, i.e. while a thread is at "insert".
QueueWriteLocked == \E t \in Threads : sched_pc[t] = "insert"

SchedInit ==
    /\ classical_ready_queue = <<>>
    /\ quantum_job_queue = <<>>
    /\ running_quantum_jobs = <<>>
    /\ max_concurrent_quantum_jobs \in 1..MaxCap
    /\ sched_pc = [t \in Threads |-> "idle"]
    /\ sched_job = [t \in Threads |-> NoJob]
    /\ complete_ret = NoJob
    /\ jobs_submitted = 0
    /\ procs_enqueued = 0
    /\ jobs_completed = 0

SchedIdle ==
    /\ classical_ready_queue = <<>>
    /\ quantum_job_queue = <<>>
    /\ running_quantum_jobs = <<>>
    /\ max_concurrent_quantum_jobs = 1
    /\ sched_pc = [t \in Threads |-> "idle"]
    /\ sched_job = [t \in Threads |-> NoJob]
    /\ complete_ret = NoJob
    /\ jobs_submitted = 0
    /\ procs_enqueued = 0
    /\ jobs_completed = 0

enqueue_process(p) ==
    /\ Created < MaxJobs
    /\ procs_enqueued' = procs_enqueued + 1
    /\ classical_ready_queue' =
         sort_classical_queue(Append(classical_ready_queue,
                                     NewProcess(procs_enqueued + 1, p)))
    /\ UNCHANGED <<quantum_job_queue, running_quantum_jobs,
                   max_concurrent_quantum_jobs, sched_pc, sched_job,
                   complete_ret, jobs_submitted, jobs_completed>>
    /\ UNCHANGED <<engine_vars, token_vars, circuit_vars, cache_vars, transport_vars, batch_vars, bp_vars, rb_vars, server_vars>>

dequeue_next_process ==
    /\ classical_ready_queue # <<>>
    /\ classical_ready_queue' = Tail(classical_ready_queue)
    /\ UNCHANGED <<quantum_job_queue, running_quantum_jobs,
                   max_concurrent_quantum_jobs, sched_pc, sched_job,
                   complete_ret, jobs_submitted, procs_enqueued, jobs_completed>>
    /\ UNCHANGED <<engine_vars, token_vars, circuit_vars, cache_vars, transport_vars, batch_vars, bp_vars, rb_vars, server_vars>>

submit_quantum_job(p) ==
    /\ Created < MaxJobs
    /\ ~QueueWriteLocked
    /\ jobs_submitted' = jobs_submitted + 1
    /\ quantum_job_queue' =
         sort_quantum_queue(Append(quantum_job_queue,
                                   NewQuantumJob(jobs_submitted + 1, p)))
    /\ UNCHANGED <<classical_ready_queue, running_quantum_jobs,
                   max_concurrent_quantum_jobs, sched_pc, sched_job,
                   complete_ret, procs_enqueued, jobs_completed>>
    /\ UNCHANGED <<engine_vars, token_vars, circuit_vars, cache_vars, transport_vars, batch_vars, bp_vars, rb_vars, server_vars>>

\* task.rs:237-241: read running.len() under the read guard, drop the guard.
start_next_quantum_job_check(t) ==
    /\ sched_pc[t] = "idle"
    /\ sched_pc' = [sched_pc EXCEPT ![t] =
                      IF Len(running_quantum_jobs) >= max_concurrent_quantum_jobs
                      THEN "idle" ELSE "pop"]
    /\ UNCHANGED <<classical_ready_queue, quantum_job_queue, running_quantum_jobs,
                   max_concurrent_quantum_jobs, sched_job, complete_ret,
                   jobs_submitted, procs_enqueued, jobs_completed>>
    /\ UNCHANGED <<engine_vars, token_vars, circuit_vars, cache_vars, transport_vars, batch_vars, bp_vars, rb_vars, server_vars>>

\* start_next_quantum_job taking a clone of the front job and leaving it queued.
start_next_quantum_job_front(t) ==
    /\ sched_pc[t] = "pop"
    /\ ~QueueWriteLocked
    /\ IF quantum_job_queue # <<>>
       THEN /\ sched_job' = [sched_job EXCEPT ![t] = mark_started(Head(quantum_job_queue))]
            /\ sched_pc' = [sched_pc EXCEPT ![t] = "insert"]
       ELSE /\ sched_pc' = [sched_pc EXCEPT ![t] = "idle"]
            /\ UNCHANGED sched_job
    /\ UNCHANGED <<classical_ready_queue, quantum_job_queue, running_quantum_jobs,
                   max_concurrent_quantum_jobs, complete_ret,
                   jobs_submitted, procs_enqueued, jobs_completed>>
    /\ UNCHANGED <<engine_vars, token_vars, circuit_vars, cache_vars, transport_vars, batch_vars, bp_vars, rb_vars, server_vars>>

\* task.rs:243-245: take the queue write guard, pop_front, mark_started.
start_next_quantum_job_pop(t) ==
    /\ sched_pc[t] = "pop"
    /\ ~QueueWriteLocked
    /\ IF quantum_job_queue # <<>>
       THEN /\ quantum_job_queue' = Tail(quantum_job_queue)
            /\ sched_job' = [sched_job EXCEPT ![t] = mark_started(Head(quantum_job_queue))]
            /\ sched_pc' = [sched_pc EXCEPT ![t] = "insert"]
       ELSE /\ sched_pc' = [sched_pc EXCEPT ![t] = "idle"]
            /\ UNCHANGED <<quantum_job_queue, sched_job>>
    /\ UNCHANGED <<classical_ready_queue, running_quantum_jobs,
                   max_concurrent_quantum_jobs, complete_ret,
                   jobs_submitted, procs_enqueued, jobs_completed>>
    /\ UNCHANGED <<engine_vars, token_vars, circuit_vars, cache_vars, transport_vars, batch_vars, bp_vars, rb_vars, server_vars>>

\* task.rs:246-248: take the running write guard, push the clone, return.
start_next_quantum_job_insert(t) ==
    /\ sched_pc[t] = "insert"
    /\ running_quantum_jobs' = Append(running_quantum_jobs, sched_job[t])
    /\ sched_job' = [sched_job EXCEPT ![t] = NoJob]
    /\ sched_pc' = [sched_pc EXCEPT ![t] = "idle"]
    /\ UNCHANGED <<classical_ready_queue, quantum_job_queue,
                   max_concurrent_quantum_jobs, complete_ret,
                   jobs_submitted, procs_enqueued, jobs_completed>>
    /\ UNCHANGED <<engine_vars, token_vars, circuit_vars, cache_vars, transport_vars, batch_vars, bp_vars, rb_vars, server_vars>>

\* running.iter().position(|j| j.id == job_id)
PositionInRunning(job_id) ==
    LET hits == {i \in 1..Len(running_quantum_jobs) :
                    running_quantum_jobs[i].id = job_id}
    IN IF hits = {} THEN 0 ELSE CHOOSE i \in hits : \A k \in hits : i <= k

RemoveAt(s, pos) == SubSeq(s, 1, pos - 1) \o SubSeq(s, pos + 1, Len(s))

\* complete_quantum_job as it would be if it returned the job without removing it.
complete_quantum_job_keeping(job_id) ==
    LET pos == PositionInRunning(job_id) IN
    /\ complete_ret' = IF pos # 0 THEN mark_completed(running_quantum_jobs[pos]) ELSE NoJob
    /\ jobs_completed' = IF pos # 0 THEN jobs_completed + 1 ELSE jobs_completed
    /\ UNCHANGED <<classical_ready_queue, quantum_job_queue, running_quantum_jobs,
                   max_concurrent_quantum_jobs, sched_pc, sched_job,
                   jobs_submitted, procs_enqueued>>
    /\ UNCHANGED <<engine_vars, token_vars, circuit_vars, cache_vars, transport_vars, batch_vars, bp_vars, rb_vars, server_vars>>

complete_quantum_job(job_id) ==
    LET pos == PositionInRunning(job_id) IN
    /\ IF pos # 0
       THEN /\ running_quantum_jobs' = RemoveAt(running_quantum_jobs, pos)
            /\ complete_ret' = mark_completed(running_quantum_jobs[pos])
            /\ jobs_completed' = jobs_completed + 1
       ELSE /\ complete_ret' = NoJob
            /\ UNCHANGED <<running_quantum_jobs, jobs_completed>>
    /\ UNCHANGED <<classical_ready_queue, quantum_job_queue,
                   max_concurrent_quantum_jobs, sched_pc, sched_job,
                   jobs_submitted, procs_enqueued>>
    /\ UNCHANGED <<engine_vars, token_vars, circuit_vars, cache_vars, transport_vars, batch_vars, bp_vars, rb_vars, server_vars>>

\* The classical ready queue and the quantum job side share no state.
ClassicalNext ==
    \/ \E p \in ProcessPriority : enqueue_process(p)
    \/ dequeue_next_process

StartCompleteNext ==
    \/ \E t \in Threads : start_next_quantum_job_check(t)
    \/ \E t \in Threads : start_next_quantum_job_pop(t)
    \/ \E t \in Threads : start_next_quantum_job_insert(t)
    \/ \E id \in 1..MaxJobs : complete_quantum_job(id)

QuantumNext ==
    \/ \E p \in QuantumJobPriority : submit_quantum_job(p)
    \/ StartCompleteNext

SchedNext == ClassicalNext \/ QuantumNext

\* The job with this id is in the quantum queue.
InQuantumQueue(id) == \E i \in DOMAIN quantum_job_queue : quantum_job_queue[i].id = id

\* The job with this id is in the running set.
InRunning(id) == PositionInRunning(id) # 0

\* task.rs:230-234: submit_quantum_job for a job created after MaxJobs jobs.
\* The scheduler keeps nothing of a completed job, so the new job is given the
\* id of one: it behaves as a job with a fresh Uuid, and the jobs that are
\* tracked stay MaxJobs however many are submitted over time.
submit_quantum_job_reusing(id, p) ==
    /\ ~QueueWriteLocked
    /\ id \in 1..jobs_submitted
    /\ ~InQuantumQueue(id) /\ ~InRunning(id)
    /\ jobs_completed > 0
    /\ jobs_completed' = jobs_completed - 1
    /\ quantum_job_queue' =
         sort_quantum_queue(Append(quantum_job_queue, NewQuantumJob(id, p)))
    /\ UNCHANGED <<classical_ready_queue, running_quantum_jobs,
                   max_concurrent_quantum_jobs, sched_pc, sched_job,
                   complete_ret, jobs_submitted, procs_enqueued>>
    /\ UNCHANGED <<engine_vars, token_vars, circuit_vars, cache_vars, transport_vars, batch_vars, bp_vars, rb_vars, server_vars>>

\* One step of thread t inside start_next_quantum_job.
start_next_quantum_job(t) ==
    \/ start_next_quantum_job_check(t)
    \/ start_next_quantum_job_pop(t)
    \/ start_next_quantum_job_insert(t)

\* Jobs submitted without end, started and completed.
SustainedNext ==
    \/ \E p \in QuantumJobPriority : submit_quantum_job(p)
    \/ \E id \in 1..MaxJobs, p \in QuantumJobPriority : submit_quantum_job_reusing(id, p)
    \/ \E t \in Threads : start_next_quantum_job(t)
    \/ \E id \in 1..MaxJobs : complete_quantum_job(id)

\* Every thread keeps calling start_next_quantum_job and runs each call to its
\* end, and every running job is completed.
SchedulerKeepsBeingInvoked ==
    /\ \A t \in Threads : WF_vars(start_next_quantum_job(t))
    /\ \A id \in 1..MaxJobs : WF_vars(InRunning(id) /\ complete_quantum_job(id))

\* =========================================================================
\* 2. AsyncQuantumExecutionEngine
\* =========================================================================
EngineInit ==
    /\ active_jobs = <<>>
    /\ max_concurrent_jobs \in 1..MaxCap
    /\ job_semaphore = max_concurrent_jobs
    /\ worker_pc = <<>>
    /\ exec_outcome = <<>>
    /\ result_channel = <<>>
    /\ cancel_seen_at = <<>>
    /\ await_ret = <<>>
    /\ calls = <<>>

EngineIdle ==
    /\ active_jobs = <<>>
    /\ max_concurrent_jobs = 1
    /\ job_semaphore = 1
    /\ worker_pc = <<>>
    /\ exec_outcome = <<>>
    /\ result_channel = <<>>
    /\ cancel_seen_at = <<>>
    /\ await_ret = <<>>
    /\ calls = <<>>

\* async_runtime.rs:112-132: new token, new oneshot, JobHandle{Queued} inserted
\* into active_jobs, worker task spawned.
submit_job ==
    /\ Executions < MaxEngineJobs
    /\ active_jobs' = Append(active_jobs, [status |-> "Queued", cancelled |-> FALSE])
    /\ worker_pc' = Append(worker_pc, "acquire")
    /\ exec_outcome' = Append(exec_outcome, "none")
    /\ result_channel' = Append(result_channel, "empty")
    /\ cancel_seen_at' = Append(cancel_seen_at, "never")
    /\ await_ret' = Append(await_ret, "pending")
    /\ UNCHANGED <<job_semaphore, max_concurrent_jobs, calls>>
    /\ UNCHANGED <<sched_vars, token_vars, circuit_vars, cache_vars, transport_vars, batch_vars, bp_vars, rb_vars, server_vars>>

\* A worker that goes on without waiting when no permit is left.
worker_acquire_without_waiting(j) ==
    /\ worker_pc[j] = "acquire"
    /\ job_semaphore' = IF job_semaphore > 0 THEN job_semaphore - 1 ELSE 0
    /\ worker_pc' = [worker_pc EXCEPT ![j] = "check_cancel"]
    /\ UNCHANGED <<active_jobs, max_concurrent_jobs, exec_outcome,
                   result_channel, cancel_seen_at>>
    /\ UNCHANGED <<sched_vars, token_vars, circuit_vars, cache_vars, transport_vars, batch_vars, bp_vars, rb_vars, server_vars, call_vars>>

\* async_runtime.rs:133: semaphore.acquire_owned().await
worker_acquire(j) ==
    /\ worker_pc[j] = "acquire"
    /\ job_semaphore > 0
    /\ job_semaphore' = job_semaphore - 1
    /\ worker_pc' = [worker_pc EXCEPT ![j] = "check_cancel"]
    /\ UNCHANGED <<active_jobs, max_concurrent_jobs, exec_outcome,
                   result_channel, cancel_seen_at>>
    /\ UNCHANGED <<sched_vars, token_vars, circuit_vars, cache_vars, transport_vars, batch_vars, bp_vars, rb_vars, server_vars, call_vars>>

\* The cancel check as it would be if the permit were leaked on the early return.
worker_check_cancel_keeping_permit(j) ==
    /\ worker_pc[j] = "check_cancel"
    /\ IF active_jobs[j].cancelled
       THEN /\ result_channel' = [result_channel EXCEPT ![j] = "Cancelled"]
            /\ worker_pc' = [worker_pc EXCEPT ![j] = "done"]
       ELSE /\ worker_pc' = [worker_pc EXCEPT ![j] = "set_running"]
            /\ UNCHANGED result_channel
    /\ UNCHANGED <<active_jobs, job_semaphore, max_concurrent_jobs, exec_outcome,
                   cancel_seen_at>>
    /\ UNCHANGED <<sched_vars, token_vars, circuit_vars, cache_vars, transport_vars, batch_vars, bp_vars, rb_vars, server_vars, call_vars>>

\* async_runtime.rs:143-146: if the token is set, send Err(Cancelled) and return
\* (the permit is dropped with the task).
worker_check_cancel(j) ==
    /\ worker_pc[j] = "check_cancel"
    /\ IF active_jobs[j].cancelled
       THEN /\ result_channel' = [result_channel EXCEPT ![j] = "Cancelled"]
            /\ job_semaphore' = job_semaphore + 1
            /\ worker_pc' = [worker_pc EXCEPT ![j] = "done"]
       ELSE /\ worker_pc' = [worker_pc EXCEPT ![j] = "set_running"]
            /\ UNCHANGED <<result_channel, job_semaphore>>
    /\ UNCHANGED <<active_jobs, max_concurrent_jobs, exec_outcome, cancel_seen_at>>
    /\ UNCHANGED <<sched_vars, token_vars, circuit_vars, cache_vars, transport_vars, batch_vars, bp_vars, rb_vars, server_vars, call_vars>>

\* async_runtime.rs:148-152
worker_set_running(j) ==
    /\ worker_pc[j] = "set_running"
    /\ active_jobs' = [active_jobs EXCEPT ![j].status = "Running"]
    /\ worker_pc' = [worker_pc EXCEPT ![j] = "executing"]
    /\ UNCHANGED <<job_semaphore, max_concurrent_jobs, exec_outcome,
                   result_channel, cancel_seen_at>>
    /\ UNCHANGED <<sched_vars, token_vars, circuit_vars, cache_vars, transport_vars, batch_vars, bp_vars, rb_vars, server_vars, call_vars>>

\* async_runtime.rs:154-159: the blocking closure runs executor.execute to its
\* end (or panics: a JoinError) and drops the permit it owns.
worker_execute(j, outcome) ==
    /\ worker_pc[j] = "executing"
    /\ exec_outcome' = [exec_outcome EXCEPT ![j] = outcome]
    /\ job_semaphore' = job_semaphore + 1
    /\ worker_pc' = [worker_pc EXCEPT ![j] = "set_final"]
    /\ UNCHANGED <<active_jobs, max_concurrent_jobs, result_channel, cancel_seen_at>>
    /\ UNCHANGED <<sched_vars, token_vars, circuit_vars, cache_vars, transport_vars, batch_vars, bp_vars, rb_vars, server_vars, call_vars>>

\* async_runtime.rs:161-176
worker_set_final(j) ==
    /\ worker_pc[j] = "set_final"
    /\ active_jobs' = [active_jobs EXCEPT ![j].status =
                         IF exec_outcome[j] = "ok" THEN "Completed" ELSE "Failed"]
    /\ worker_pc' = [worker_pc EXCEPT ![j] = "send"]
    /\ UNCHANGED <<job_semaphore, max_concurrent_jobs, exec_outcome,
                   result_channel, cancel_seen_at>>
    /\ UNCHANGED <<sched_vars, token_vars, circuit_vars, cache_vars, transport_vars, batch_vars, bp_vars, rb_vars, server_vars, call_vars>>

\* async_runtime.rs:178
worker_send_result(j) ==
    /\ worker_pc[j] = "send"
    /\ result_channel' = [result_channel EXCEPT ![j] =
                            IF exec_outcome[j] = "ok" THEN "Ok" ELSE "AsyncError"]
    /\ worker_pc' = [worker_pc EXCEPT ![j] = "done"]
    /\ UNCHANGED <<active_jobs, job_semaphore, max_concurrent_jobs, exec_outcome,
                   cancel_seen_at>>
    /\ UNCHANGED <<sched_vars, token_vars, circuit_vars, cache_vars, transport_vars, batch_vars, bp_vars, rb_vars, server_vars, call_vars>>

\* cancel_job as it would be if it also wrote Cancelled into the job's status.
cancel_job_marking_cancelled(j) ==
    /\ active_jobs' = [active_jobs EXCEPT ![j].cancelled = TRUE,
                                          ![j].status = "Cancelled"]
    /\ cancel_seen_at' = [cancel_seen_at EXCEPT ![j] =
                            IF @ = "never" THEN worker_pc[j] ELSE @]
    /\ UNCHANGED <<job_semaphore, max_concurrent_jobs, worker_pc, exec_outcome,
                   result_channel>>
    /\ UNCHANGED <<sched_vars, token_vars, circuit_vars, cache_vars, transport_vars, batch_vars, bp_vars, rb_vars, server_vars, call_vars>>

\* async_runtime.rs:188-196 (and QuantumJobFuture::cancel, 371-373):
\* CancellationToken::cancel stores true in the shared flag.
cancel_job(j) ==
    /\ active_jobs' = [active_jobs EXCEPT ![j].cancelled = TRUE]
    /\ cancel_seen_at' = [cancel_seen_at EXCEPT ![j] =
                            IF @ = "never" THEN worker_pc[j] ELSE @]
    /\ UNCHANGED <<job_semaphore, max_concurrent_jobs, worker_pc, exec_outcome,
                   result_channel>>
    /\ UNCHANGED <<sched_vars, token_vars, circuit_vars, cache_vars, transport_vars, batch_vars, bp_vars, rb_vars, server_vars, call_vars>>

EngineJobs == 1..Len(active_jobs)

EngineNext ==
    \/ submit_job
    \/ \E j \in EngineJobs : worker_acquire(j)
    \/ \E j \in EngineJobs : worker_check_cancel(j)
    \/ \E j \in EngineJobs : worker_set_running(j)
    \/ \E j \in EngineJobs : \E o \in {"ok", "panic"} : worker_execute(j, o)
    \/ \E j \in EngineJobs : worker_set_final(j)
    \/ \E j \in EngineJobs : worker_send_result(j)
    \/ \E j \in EngineJobs : cancel_job(j)

\* ---- QuantumJobFuture (async_runtime.rs:343-374)
\* await_result, or await_with_timeout before its timer: the result has arrived.
await_result(j) ==
    /\ await_ret[j] = "pending"
    /\ result_channel[j] # "empty"
    /\ await_ret' = [await_ret EXCEPT ![j] = result_channel[j]]
    /\ UNCHANGED <<active_jobs, job_semaphore, max_concurrent_jobs, worker_pc,
                   exec_outcome, result_channel, cancel_seen_at, calls>>
    /\ UNCHANGED <<sched_vars, token_vars, circuit_vars, cache_vars, transport_vars, batch_vars, bp_vars, rb_vars, server_vars>>

\* async_runtime.rs:362-369: the timer of await_with_timeout expires before the
\* result is there: Timeout is returned and the future (consumed by the call)
\* is dropped with its receiver and its clone of the token.
await_with_timeout_expires(j) ==
    /\ await_ret[j] = "pending"
    /\ result_channel[j] = "empty"
    /\ await_ret' = [await_ret EXCEPT ![j] = "Timeout"]
    /\ UNCHANGED <<active_jobs, job_semaphore, max_concurrent_jobs, worker_pc,
                   exec_outcome, result_channel, cancel_seen_at, calls>>
    /\ UNCHANGED <<sched_vars, token_vars, circuit_vars, cache_vars, transport_vars, batch_vars, bp_vars, rb_vars, server_vars>>

\* ---- execute_circuit_async / execute_with_timeout (async_runtime.rs:69-105);
\* BatchExecutor::execute_batch spawns one execute_circuit_async per circuit.
NewCall(timed) ==
    [timed |-> timed, pc |-> "acquire", outcome |-> "none", ret |-> "pending"]

execute_circuit_async ==
    /\ Executions < MaxEngineJobs
    /\ calls' = Append(calls, NewCall(FALSE))
    /\ UNCHANGED <<active_jobs, job_semaphore, max_concurrent_jobs, worker_pc,
                   exec_outcome, result_channel, cancel_seen_at, await_ret>>
    /\ UNCHANGED <<sched_vars, token_vars, circuit_vars, cache_vars, transport_vars, batch_vars, bp_vars, rb_vars, server_vars>>

execute_with_timeout ==
    /\ Executions < MaxEngineJobs
    /\ calls' = Append(calls, NewCall(TRUE))
    /\ UNCHANGED <<active_jobs, job_semaphore, max_concurrent_jobs, worker_pc,
                   exec_outcome, result_channel, cancel_seen_at, await_ret>>
    /\ UNCHANGED <<sched_vars, token_vars, circuit_vars, cache_vars, transport_vars, batch_vars, bp_vars, rb_vars, server_vars>>

\* async_runtime.rs:75-82: job_semaphore.acquire_owned().await
call_acquire(c) ==
    /\ calls[c].pc = "acquire"
    /\ job_semaphore > 0
    /\ job_semaphore' = job_semaphore - 1
    /\ calls' = [calls EXCEPT ![c].pc = "executing"]
    /\ UNCHANGED <<active_jobs, max_concurrent_jobs, worker_pc,
                   exec_outcome, result_channel, cancel_seen_at, await_ret>>
    /\ UNCHANGED <<sched_vars, token_vars, circuit_vars, cache_vars, transport_vars, batch_vars, bp_vars, rb_vars, server_vars>>

\* async_runtime.rs:86-93: the blocking closure owns the permit, runs
\* executor.execute to its end (or panics) and drops the permit; the caller, if
\* it still waits, gets the result.
call_execute(c, outcome) ==
    /\ calls[c].pc = "executing"
    /\ job_semaphore' = job_semaphore + 1
    /\ calls' = [calls EXCEPT ![c].pc = "done",
                              ![c].outcome = outcome,
                              ![c].ret = IF @ # "pending" THEN @
                                         ELSE IF outcome = "ok" THEN "Ok" ELSE "AsyncError"]
    /\ UNCHANGED <<active_jobs, max_concurrent_jobs, worker_pc,
                   exec_outcome, result_channel, cancel_seen_at, await_ret>>
    /\ UNCHANGED <<sched_vars, token_vars, circuit_vars, cache_vars, transport_vars, batch_vars, bp_vars, rb_vars, server_vars>>

\* async_runtime.rs:102-104: the timer of execute_with_timeout expires first:
\* Timeout is returned and the execute_circuit_async future is dropped. A
\* pending acquire is withdrawn; a blocking closure already started runs on.
execute_with_timeout_expires(c) ==
    /\ calls[c].timed
    /\ calls[c].ret = "pending"
    /\ calls' = [calls EXCEPT ![c].ret = "Timeout",
                              ![c].pc = IF @ = "acquire" THEN "dropped" ELSE @]
    /\ UNCHANGED <<active_jobs, job_semaphore, max_concurrent_jobs, worker_pc,
                   exec_outcome, result_channel, cancel_seen_at, await_ret>>
    /\ UNCHANGED <<sched_vars, token_vars, circuit_vars, cache_vars, transport_vars, batch_vars, bp_vars, rb_vars, server_vars>>

Calls == 1..Len(calls)

\* Direct and batch executions.
CallsNext ==
    \/ execute_circuit_async
    \/ \E c \in Calls : call_acquire(c)
    \/ \E c \in Calls : \E o \in {"ok", "panic"} : call_execute(c, o)

\* Waits with a timeout.
TimeoutsNext ==
    \/ \E j \in EngineJobs : await_result(j)
    \/ \E j \in EngineJobs : await_with_timeout_expires(j)
    \/ execute_with_timeout
    \/ \E c \in Calls : execute_with_timeout_expires(c)

\* submit_job next to direct and batch executions.
EngineCallsNext == EngineNext \/ CallsNext

\* The same with the results awaited, with and without a timeout.
EngineTimeoutsNext == EngineNext \/ CallsNext \/ TimeoutsNext

\* ---- CancellationToken (async_runtime.rs:480-522)
Waiters == 1..NumWaiters

\* CancellationToken::new(): a fresh flag (false) and a fresh Notify.
CancellationTokenNew ==
    /\ tokens = <<[shared |-> 1, parent |-> 0]>>
    /\ cancelled = <<FALSE>>
    /\ notify_registered = <<{}>>
    /\ waiter_pc = [w \in Waiters |-> "idle"]
    /\ waiter_token = [w \in Waiters |-> 0]
    /\ cancel_pc = "idle"
    /\ cancel_token = 0

TokenIdle == CancellationTokenNew

Tokens == 1..Len(tokens)

\* async_runtime.rs:505-507
is_cancelled(k) == cancelled[tokens[k].shared]

\* A further CancellationToken::new().
token_new ==
    /\ Len(tokens) < MaxTokens
    /\ tokens' = Append(tokens, [shared |-> Len(cancelled) + 1, parent |-> 0])
    /\ cancelled' = Append(cancelled, FALSE)
    /\ notify_registered' = Append(notify_registered, {})
    /\ UNCHANGED <<waiter_pc, waiter_token, cancel_pc, cancel_token>>
    /\ UNCHANGED <<sched_vars, engine_vars, circuit_vars, cache_vars, transport_vars, batch_vars, bp_vars, rb_vars, server_vars>>

\* A child that gets a flag of its own, copied from the parent's.
child_token_with_own_flag(k) ==
    /\ Len(tokens) < MaxTokens
    /\ tokens' = Append(tokens, [shared |-> Len(cancelled) + 1, parent |-> k])
    /\ cancelled' = Append(cancelled, is_cancelled(k))
    /\ notify_registered' = Append(notify_registered, {})
    /\ UNCHANGED <<waiter_pc, waiter_token, cancel_pc, cancel_token>>
    /\ UNCHANGED <<sched_vars, engine_vars, circuit_vars, cache_vars, transport_vars, batch_vars, bp_vars, rb_vars, server_vars>>

\* async_runtime.rs:516-521 (and the derived Clone): both Arcs are cloned.
child_token(k) ==
    /\ Len(tokens) < MaxTokens
    /\ tokens' = Append(tokens, [shared |-> tokens[k].shared, parent |-> k])
    /\ UNCHANGED <<cancelled, notify_registered, waiter_pc, waiter_token,
                   cancel_pc, cancel_token>>
    /\ UNCHANGED <<sched_vars, engine_vars, circuit_vars, cache_vars, transport_vars, batch_vars, bp_vars, rb_vars, server_vars>>

\* async_runtime.rs:501: cancelled.store(true, SeqCst)
cancel_store(k) ==
    /\ cancel_pc = "idle"
    /\ cancelled' = [cancelled EXCEPT ![tokens[k].shared] = TRUE]
    /\ cancel_pc' = "notify_waiters"
    /\ cancel_token' = k
    /\ UNCHANGED <<tokens, notify_registered, waiter_pc, waiter_token>>
    /\ UNCHANGED <<sched_vars, engine_vars, circuit_vars, cache_vars, transport_vars, batch_vars, bp_vars, rb_vars, server_vars>>

\* async_runtime.rs:502: notify.notify_waiters() wakes the tasks waiting in
\* notified() at this moment and stores nothing for later ones.
cancel_notify_waiters ==
    /\ cancel_pc = "notify_waiters"
    /\ LET n == tokens[cancel_token].shared
       IN /\ waiter_pc' = [w \in Waiters |->
                             IF w \in notify_registered[n] THEN "returned" ELSE waiter_pc[w]]
          /\ notify_registered' = [notify_registered EXCEPT ![n] = {}]
    /\ cancel_pc' = "idle"
    /\ cancel_token' = 0
    /\ UNCHANGED <<tokens, cancelled, waiter_token>>
    /\ UNCHANGED <<sched_vars, engine_vars, circuit_vars, cache_vars, transport_vars, batch_vars, bp_vars, rb_vars, server_vars>>

\* A task calls token.cancelled().await; the tasks are numbered in the order
\* of their calls.
cancelled_call(w, k) ==
    /\ waiter_pc[w] = "idle"
    /\ \A u \in Waiters : u < w => waiter_pc[u] # "idle"
    /\ waiter_pc' = [waiter_pc EXCEPT ![w] = "is_cancelled"]
    /\ waiter_token' = [waiter_token EXCEPT ![w] = k]
    /\ UNCHANGED <<tokens, cancelled, notify_registered, cancel_pc, cancel_token>>
    /\ UNCHANGED <<sched_vars, engine_vars, circuit_vars, cache_vars, transport_vars, batch_vars, bp_vars, rb_vars, server_vars>>

\* async_runtime.rs:510-512: if self.is_cancelled() { return; }
cancelled_is_cancelled(w) ==
    /\ waiter_pc[w] = "is_cancelled"
    /\ waiter_pc' = [waiter_pc EXCEPT ![w] =
                        IF is_cancelled(waiter_token[w]) THEN "returned" ELSE "notified"]
    /\ UNCHANGED <<tokens, cancelled, notify_registered, waiter_token,
                   cancel_pc, cancel_token>>
    /\ UNCHANGED <<sched_vars, engine_vars, circuit_vars, cache_vars, transport_vars, batch_vars, bp_vars, rb_vars, server_vars>>

\* async_runtime.rs:513: self.notify.notified().await: the task joins the
\* Notify's waiters and sleeps until a notification.
cancelled_notified(w) ==
    /\ waiter_pc[w] = "notified"
    /\ waiter_pc' = [waiter_pc EXCEPT ![w] = "waiting"]
    /\ notify_registered' = [notify_registered EXCEPT
                                ![tokens[waiter_token[w]].shared] = @ \cup {w}]
    /\ UNCHANGED <<tokens, cancelled, waiter_token, cancel_pc, cancel_token>>
    /\ UNCHANGED <<sched_vars, engine_vars, circuit_vars, cache_vars, transport_vars, batch_vars, bp_vars, rb_vars, server_vars>>

\* The steps a started cancelled() call takes by itself.
cancelled_step(w) == cancelled_is_cancelled(w) \/ cancelled_notified(w)

TokenNext ==
    \/ token_new
    \/ \E k \in Tokens : child_token(k)
    \/ \E k \in Tokens : cancel_store(k)
    \/ cancel_notify_waiters
    \/ \E w \in Waiters : \E k \in Tokens : cancelled_call(w, k)
    \/ \E w \in Waiters : cancelled_is_cancelled(w)
    \/ \E w \in Waiters : cancelled_notified(w)

TokenStateNext ==
    \/ token_new
    \/ \E k \in Tokens : child_token(k)
    \/ \E k \in Tokens : cancel_store(k)
    \/ cancel_notify_waiters

\* =========================================================================
\* 3. BackpressureHandler
\* =========================================================================
Publishers == 1..NumPublishers

\* AtomicUsize::fetch_add and fetch_sub wrap around on overflow.
UsizeModulus == 2 ^ UsizeBits
wrapping_add(x, d) == (x + d) % UsizeModulus
wrapping_sub(x, d) == (x - d) % UsizeModulus

\* BackpressureHandler::new(t)
BackpressureNew(t) ==
    /\ pending_count = 0
    /\ threshold = t
    /\ notify_permit = FALSE
    /\ notify_waiters = <<>>
    /\ bp_pc = [p \in Publishers |-> "idle"]
    /\ bp_held = [p \in Publishers |-> 0]

\* A task calls check_and_wait().
check_and_wait_call(p) ==
    /\ bp_pc[p] = "idle"
    /\ bp_pc' = [bp_pc EXCEPT ![p] = "load"]
    /\ UNCHANGED <<pending_count, threshold, notify_permit, notify_waiters, bp_held>>
    /\ UNCHANGED <<sched_vars, engine_vars, token_vars, circuit_vars, cache_vars, transport_vars, batch_vars, rb_vars, server_vars>>

\* streaming.rs:373: pending_count.load(SeqCst) >= threshold decides the loop.
check_and_wait_load(p) ==
    /\ bp_pc[p] = "load"
    /\ bp_pc' = [bp_pc EXCEPT ![p] =
                   IF pending_count >= threshold THEN "notified" ELSE "fetch_add"]
    /\ UNCHANGED <<pending_count, threshold, notify_permit, notify_waiters, bp_held>>
    /\ UNCHANGED <<sched_vars, engine_vars, token_vars, circuit_vars, cache_vars, transport_vars, batch_vars, rb_vars, server_vars>>

\* streaming.rs:374: notify.notified().await takes a stored permit, or parks.
check_and_wait_notified(p) ==
    /\ bp_pc[p] = "notified"
    /\ IF notify_permit
       THEN /\ notify_permit' = FALSE
            /\ bp_pc' = [bp_pc EXCEPT ![p] = "load"]
            /\ UNCHANGED notify_waiters
       ELSE /\ notify_waiters' = Append(notify_waiters, p)
            /\ bp_pc' = [bp_pc EXCEPT ![p] = "parked"]
            /\ UNCHANGED notify_permit
    /\ UNCHANGED <<pending_count, threshold, bp_held>>
    /\ UNCHANGED <<sched_vars, engine_vars, token_vars, circuit_vars, cache_vars, transport_vars, batch_vars, rb_vars, server_vars>>

\* streaming.rs:376: pending_count.fetch_add(1, SeqCst); check_and_wait returns.
check_and_wait_fetch_add(p) ==
    /\ bp_pc[p] = "fetch_add"
    /\ pending_count' = wrapping_add(pending_count, 1)
    /\ bp_held' = [bp_held EXCEPT ![p] = @ + 1]
    /\ bp_pc' = [bp_pc EXCEPT ![p] = "idle"]
    /\ UNCHANGED <<threshold, notify_permit, notify_waiters>>
    /\ UNCHANGED <<sched_vars, engine_vars, token_vars, circuit_vars, cache_vars, transport_vars, batch_vars, rb_vars, server_vars>>

\* streaming.rs:380: pending_count.fetch_sub(1, SeqCst). bp_held counts the
\* acquisitions of the task minus its releases.
release_fetch_sub(p) ==
    /\ bp_pc[p] = "idle"
    /\ pending_count' = wrapping_sub(pending_count, 1)
    /\ bp_held' = [bp_held EXCEPT ![p] = @ - 1]
    /\ bp_pc' = [bp_pc EXCEPT ![p] = "notify_one"]
    /\ UNCHANGED <<threshold, notify_permit, notify_waiters>>
    /\ UNCHANGED <<sched_vars, engine_vars, token_vars, circuit_vars, cache_vars, transport_vars, batch_vars, rb_vars, server_vars>>

\* streaming.rs:381: notify.notify_one() wakes the longest-parked task, or
\* stores one permit when nobody is parked.
release_notify_one(p) ==
    /\ bp_pc[p] = "notify_one"
    /\ IF notify_waiters # <<>>
       THEN /\ bp_pc' = [bp_pc EXCEPT ![p] = "idle",
                                     ![Head(notify_waiters)] = "load"]
            /\ notify_waiters' = Tail(notify_waiters)
            /\ UNCHANGED notify_permit
       ELSE /\ bp_pc' = [bp_pc EXCEPT ![p] = "idle"]
            /\ notify_permit' = TRUE
            /\ UNCHANGED notify_waiters
    /\ UNCHANGED <<pending_count, threshold, bp_held>>
    /\ UNCHANGED <<sched_vars, engine_vars, token_vars, circuit_vars, cache_vars, transport_vars, batch_vars, rb_vars, server_vars>>

BackpressureNext ==
    \/ \E p \in Publishers : check_and_wait_call(p)
    \/ \E p \in Publishers : check_and_wait_load(p)
    \/ \E p \in Publishers : check_and_wait_notified(p)
    \/ \E p \in Publishers : check_and_wait_fetch_add(p)
    \/ \E p \in Publishers : bp_held[p] > 0 /\ release_fetch_sub(p)
    \/ \E p \in Publishers : release_notify_one(p)

\* streaming.rs:384-386
current_pressure_percent == (100 * pending_count) \div threshold

\* streaming.rs:388-390: threshold / 2 is the usize division
is_under_pressure == pending_count >= threshold \div 2

\* The calls of the handler with release() also called by tasks that hold no
\* slot.
PressureNext ==
    \/ \E p \in Publishers : check_and_wait_call(p)
    \/ \E p \in Publishers : check_and_wait_load(p)
    \/ \E p \in Publishers : check_and_wait_notified(p)
    \/ \E p \in Publishers : check_and_wait_fetch_add(p)
    \/ \E p \in Publishers : bp_held[p] > -MaxUnmatched /\ release_fetch_sub(p)
    \/ \E p \in Publishers : release_notify_one(p)

\* =========================================================================
\* 4. ReplayBuffer
\* =========================================================================
\* ReplayBuffer::new(capacity)
ReplayBufferNew(capacity) ==
    /\ rb_buffer = <<>>
    /\ rb_capacity = capacity
    /\ rb_message_id = 0
    /\ rb_pushes = 0

\* streaming.rs:413-419: the buffer and the message id after push(msg).
PushedBuffer(buffer, capacity, msg) ==
    Append(IF Len(buffer) >= capacity
           THEN (IF buffer = <<>> THEN <<>> ELSE Tail(buffer))
           ELSE buffer, msg)

push(msg) ==
    /\ rb_buffer' = PushedBuffer(rb_buffer, rb_capacity, msg)
    /\ rb_message_id' = rb_message_id + 1
    /\ rb_pushes' = rb_pushes + 1
    /\ UNCHANGED rb_capacity

\* streaming.rs:421-423
get_all == rb_buffer

\* A get_since that takes the id for a position in the buffer.
get_since_from_position(message_id) ==
    SubSeq(rb_buffer, message_id + 1, Len(rb_buffer))

\* streaming.rs:425-438
get_since(message_id) ==
    LET current_id == rb_message_id
    IN IF message_id >= current_id
       THEN <<>>
       ELSE LET skip == IF current_id - message_id > Len(rb_buffer)
                        THEN 0
                        ELSE Len(rb_buffer) - (current_id - message_id)
            IN SubSeq(rb_buffer, skip + 1, Len(rb_buffer))

\* streaming.rs:440-442
current_message_id == rb_message_id

\* streaming.rs:452-454
clear ==
    /\ rb_buffer' = <<>>
    /\ UNCHANGED <<rb_capacity, rb_message_id, rb_pushes>>

HeartbeatMsg(ts) == [kind |-> "Heartbeat", n |-> ts]

MeasurementEventMsg(shot_index) == [kind |-> "MeasurementEvent", n |-> shot_index]

\* The buffer on its own: any message pushed, cleared at any time.
ReplayPush(msg) ==
    /\ rb_pushes < MaxPushes
    /\ push(msg)
    /\ UNCHANGED <<sched_vars, engine_vars, token_vars, circuit_vars, cache_vars, transport_vars, batch_vars, bp_vars, server_vars>>

ReplayClear ==
    /\ clear
    /\ UNCHANGED <<sched_vars, engine_vars, token_vars, circuit_vars, cache_vars, transport_vars, batch_vars, bp_vars, server_vars>>

ReplayNext ==
    \/ \E m \in {HeartbeatMsg(rb_pushes), MeasurementEventMsg(rb_pushes)} : ReplayPush(m)
    \/ ReplayClear

\* =========================================================================
\* 5. StreamAggregator and MeasurementStreamServer (one job id)
\* =========================================================================
Subscribers == 1..NumSubscribers

StatisticsUpdateMsg(total_shots) == [kind |-> "StatisticsUpdate", n |-> total_shots]

\* No message: the value of a task's message slot outside broadcast_to_job.
NoMsg == [kind |-> "None", n |-> 0]

\* No subscribe call made yet.
NoCall ==
    [include_measurements |-> FALSE, include_statistics |-> FALSE,
     job_found |-> FALSE, created_at |-> 0]

\* StreamAggregator::new(emit_interval)
StreamAggregatorNew(interval) ==
    /\ emit_interval = interval
    /\ total_count = 0
    /\ since_last_emit = 0
    /\ bitstring_counts = <<>>
    /\ agg_adds = 0

\* The measurement_bitstring values an event can carry (bytes 0..MaxBitValue).
Measurements == [1..NumBits -> 0..MaxBitValue]

\* measurement.rs:47-52: byte 0 gives '0', any other byte gives '1'.
bitstring_as_string(bits) == [i \in 1..Len(bits) |-> IF bits[i] = 0 THEN "0" ELSE "1"]

\* The bits of the event with a given shot index, as in test_stream_aggregator
\* (streaming.rs:575).
BitsOfShot(shot_index) == [i \in 1..NumBits |-> shot_index % 2]

\* An add_measurement whose signal comes one call late.
add_measurement_returns_late == since_last_emit + 1 > emit_interval

\* streaming.rs:479-491: add_measurement returns whether statistics are due.
add_measurement_returns == since_last_emit + 1 >= emit_interval

\* A HashMap<String, usize> is a function on the keys inserted so far.
Entry(map, key) == IF key \in DOMAIN map THEN map[key] ELSE 0

\* An add_measurement that counts a bitstring only the first time it is seen.
AddedCountsOnce(bits) ==
    LET key == bitstring_as_string(bits)
    IN [k \in DOMAIN bitstring_counts \cup {key} |->
          IF k = key THEN 1 ELSE bitstring_counts[k]]

\* streaming.rs:480-481: *bitstring_counts.entry(bitstring).or_insert(0) += 1
AddedCounts(bits) ==
    LET key == bitstring_as_string(bits)
    IN [k \in DOMAIN bitstring_counts \cup {key} |->
          IF k = key THEN Entry(bitstring_counts, key) + 1 ELSE bitstring_counts[k]]

add_measurement(bits) ==
    /\ bitstring_counts' = AddedCounts(bits)
    /\ total_count' = total_count + 1
    /\ since_last_emit' = IF add_measurement_returns THEN 0 ELSE since_last_emit + 1
    /\ agg_adds' = agg_adds + 1
    /\ UNCHANGED emit_interval

\* streaming.rs:532-536
reset ==
    /\ bitstring_counts' = <<>>
    /\ total_count' = 0
    /\ since_last_emit' = 0
    /\ agg_adds' = 0
    /\ UNCHANGED emit_interval

\* The aggregator on its own: any measurement added, reset at any time.
AggregatorAdd(bits) ==
    /\ agg_adds < MaxAdds
    /\ add_measurement(bits)
    /\ UNCHANGED <<job_registered, message_buffer_size, receiver_dropped, complete_vars,
                   sub_vars, pub_vars>>
    /\ UNCHANGED <<sched_vars, engine_vars, token_vars, circuit_vars, cache_vars, transport_vars, batch_vars, bp_vars, rb_vars>>

AggregatorReset ==
    /\ reset
    /\ UNCHANGED <<job_registered, message_buffer_size, receiver_dropped, complete_vars,
                   sub_vars, pub_vars>>
    /\ UNCHANGED <<sched_vars, engine_vars, token_vars, circuit_vars, cache_vars, transport_vars, batch_vars, bp_vars, rb_vars>>

AggregatorNext ==
    \/ \E bits \in Measurements : AggregatorAdd(bits)
    \/ AggregatorReset

\* MeasurementStreamServer::new(config): no job, no subscriber, no call running.
MeasurementStreamServerNew(buffer_size) ==
    /\ job_registered = FALSE
    /\ message_buffer_size = buffer_size
    /\ subscribers = <<>>
    /\ mailbox = [s \in Subscribers |-> <<>>]
    /\ read_count = [s \in Subscribers |-> 0]
    /\ sub_pc = [s \in Subscribers |-> "idle"]
    /\ sub_replay = [s \in Subscribers |-> <<>>]
    /\ sub_call = [s \in Subscribers |-> NoCall]
    /\ pub_pc = [t \in Publishers |-> "idle"]
    /\ pub_event = [t \in Publishers |-> 0]
    /\ pub_emit = [t \in Publishers |-> FALSE]
    /\ pub_msg = [t \in Publishers |-> NoMsg]
    /\ pub_idx = [t \in Publishers |-> 0]
    /\ pub_ret = [t \in Publishers |-> "none"]
    /\ events_started = 0
    /\ complete_pc = "idle"
    /\ complete_idx = 0
    /\ complete_total_shots = 0
    /\ complete_job_ret = "none"
    /\ receiver_dropped = [s \in Subscribers |-> FALSE]

ServerIdle == MeasurementStreamServerNew(1) /\ StreamAggregatorNew(1)

\* A bounded mpsc channel holds at most message_buffer_size unreceived messages.
MailboxFull(s) == Len(mailbox[s]) - read_count[s] >= message_buffer_size

\* streaming.rs:320: a task inside broadcast_to_job holds subscribers.read().
SubscribersReadLockedBy(t) == pub_pc[t] = "send"

SubscribersReadLocked ==
    \/ \E t \in Publishers : SubscribersReadLockedBy(t)
    \/ complete_pc = "send"

\* streaming.rs:227-246: a publish_measurement call holds jobs.read() from the
\* lookup to the end of the block, through check_and_wait().await.
JobsReadLocked(t) == pub_pc[t] \in {"check_and_wait", "add_measurement"}

\* streaming.rs:283: a subscribe call parked in subscribers.write(); parking_lot
\* makes new readers queue behind a parked writer.
SubscribersWriterParked == \E s \in Subscribers : sub_pc[s] = "register_wait"

\* streaming.rs:198-221: register_job builds a fresh context from the config and
\* replaces the job's subscriber list by an empty one. The job is registered
\* once in a run, before any call has found it, so both write locks are free.
register_job ==
    /\ ~job_registered
    /\ job_registered' = TRUE
    /\ rb_buffer' = <<>> /\ rb_message_id' = 0 /\ rb_pushes' = 0
    /\ total_count' = 0 /\ since_last_emit' = 0
    /\ bitstring_counts' = <<>> /\ agg_adds' = 0
    /\ pending_count' = 0 /\ notify_permit' = FALSE /\ notify_waiters' = <<>>
    /\ subscribers' = <<>>
    /\ UNCHANGED <<rb_capacity, emit_interval, threshold, bp_pc, bp_held>>
    /\ UNCHANGED <<message_buffer_size, receiver_dropped, complete_vars, mailbox, read_count, sub_pc, sub_replay, sub_call>>
    /\ UNCHANGED <<pub_vars, sched_vars, engine_vars, token_vars, circuit_vars, cache_vars, transport_vars, batch_vars>>

\* ---- publish_measurement (streaming.rs:223-257)
\* Every task publishes one event of the job; the tasks are numbered in the
\* order of their calls, and so are the events (their shot indices).
Published(t) == pub_event[t] # 0

\* streaming.rs:227-232: the job is looked up under jobs.read(); an unknown job
\* returns JobNotFound, a known one enters backpressure.check_and_wait().
publish_measurement_begin(t) ==
    /\ pub_pc[t] = "idle"
    /\ bp_pc[t] = "idle"
    /\ ~Published(t)
    /\ \A u \in 1..(t - 1) : Published(u)
    /\ IF job_registered
       THEN /\ events_started' = events_started + 1
            /\ pub_event' = [pub_event EXCEPT ![t] = events_started + 1]
            /\ pub_pc' = [pub_pc EXCEPT ![t] = "check_and_wait"]
            /\ bp_pc' = [bp_pc EXCEPT ![t] = "load"]
            /\ pub_ret' = [pub_ret EXCEPT ![t] = "none"]
       ELSE /\ pub_ret' = [pub_ret EXCEPT ![t] = "JobNotFound"]
            /\ UNCHANGED <<events_started, pub_event, pub_pc, bp_pc>>
    /\ UNCHANGED <<pub_emit, pub_msg, pub_idx>>
    /\ UNCHANGED <<pending_count, threshold, notify_permit, notify_waiters, bp_held>>
    /\ UNCHANGED <<job_registered, message_buffer_size, receiver_dropped, complete_vars, agg_vars, sub_vars>>
    /\ UNCHANGED <<sched_vars, engine_vars, token_vars, circuit_vars, cache_vars, transport_vars, batch_vars, rb_vars>>

\* streaming.rs:234-235: check_and_wait has returned; the event goes into the
\* replay buffer.
publish_measurement_push(t) ==
    /\ pub_pc[t] = "check_and_wait"
    /\ bp_pc[t] = "idle"
    /\ push(MeasurementEventMsg(pub_event[t]))
    /\ pub_pc' = [pub_pc EXCEPT ![t] = "add_measurement"]
    /\ UNCHANGED <<pub_event, pub_emit, pub_msg, pub_idx, pub_ret, events_started>>
    /\ UNCHANGED <<job_registered, message_buffer_size, receiver_dropped, complete_vars, agg_vars, sub_vars>>
    /\ UNCHANGED <<sched_vars, engine_vars, token_vars, circuit_vars, cache_vars, transport_vars, batch_vars, bp_vars>>

\* streaming.rs:237-247: the aggregator counts the event, the jobs guard is
\* dropped and the event message is built.
publish_measurement_aggregate(t) ==
    /\ pub_pc[t] = "add_measurement"
    /\ add_measurement(BitsOfShot(pub_event[t]))
    /\ pub_emit' = [pub_emit EXCEPT ![t] = add_measurement_returns]
    /\ pub_msg' = [pub_msg EXCEPT ![t] = MeasurementEventMsg(pub_event[t])]
    /\ pub_pc' = [pub_pc EXCEPT ![t] = "broadcast"]
    /\ UNCHANGED <<pub_event, pub_idx, pub_ret, events_started>>
    /\ UNCHANGED <<job_registered, message_buffer_size, receiver_dropped, complete_vars, sub_vars>>
    /\ UNCHANGED <<sched_vars, engine_vars, token_vars, circuit_vars, cache_vars, transport_vars, batch_vars, bp_vars, rb_vars>>

\* streaming.rs:320: broadcast_to_job takes subscribers.read().
broadcast_to_job_lock(t) ==
    /\ pub_pc[t] = "broadcast"
    /\ ~SubscribersWriterParked
    /\ pub_pc' = [pub_pc EXCEPT ![t] = "send"]
    /\ pub_idx' = [pub_idx EXCEPT ![t] = 1]
    /\ UNCHANGED <<pub_event, pub_emit, pub_msg, pub_ret, events_started>>
    /\ UNCHANGED <<job_registered, message_buffer_size, receiver_dropped, complete_vars, agg_vars, sub_vars>>
    /\ UNCHANGED <<sched_vars, engine_vars, token_vars, circuit_vars, cache_vars, transport_vars, batch_vars, bp_vars, rb_vars>>

\* streaming.rs:323-327
should_send(sub, msg) ==
    IF msg.kind = "MeasurementEvent" THEN sub.include_measurements
    ELSE IF msg.kind = "StatisticsUpdate" THEN sub.include_statistics
    ELSE TRUE

\* streaming.rs:330: sender.send(msg).await is pending while the subscriber's
\* channel is full; on a channel whose receiver is gone it returns Err at once
\* and `let _ =` discards the error.
WaitingForMailbox(t) ==
    /\ pub_pc[t] = "send"
    /\ pub_idx[t] <= Len(subscribers)
    /\ should_send(subscribers[pub_idx[t]], pub_msg[t])
    /\ ~receiver_dropped[subscribers[pub_idx[t]].subscriber_id]
    /\ MailboxFull(subscribers[pub_idx[t]].subscriber_id)

\* streaming.rs:322-332: one turn of the loop over the job's subscribers.
broadcast_to_job_send(t) ==
    /\ pub_pc[t] = "send"
    /\ pub_idx[t] <= Len(subscribers)
    /\ ~WaitingForMailbox(t)
    /\ LET sub == subscribers[pub_idx[t]]
       IN mailbox' = IF should_send(sub, pub_msg[t]) /\ ~receiver_dropped[sub.subscriber_id]
                     THEN [mailbox EXCEPT ![sub.subscriber_id] = Append(@, pub_msg[t])]
                     ELSE mailbox
    /\ pub_idx' = [pub_idx EXCEPT ![t] = @ + 1]
    /\ UNCHANGED <<subscribers, read_count, sub_pc, sub_replay, sub_call>>
    /\ UNCHANGED <<pub_pc, pub_event, pub_emit, pub_msg, pub_ret, events_started>>
    /\ UNCHANGED <<job_registered, message_buffer_size, receiver_dropped, complete_vars, agg_vars>>
    /\ UNCHANGED <<sched_vars, engine_vars, token_vars, circuit_vars, cache_vars, transport_vars, batch_vars, bp_vars, rb_vars>>

\* streaming.rs:333-336 and 250-256: the loop is over, the guard is dropped;
\* after the event's fan-out statistics follow if they are due, otherwise
\* publish_measurement returns Ok(()).
broadcast_to_job_return(t) ==
    /\ pub_pc[t] = "send"
    /\ pub_idx[t] > Len(subscribers)
    /\ IF pub_msg[t].kind = "MeasurementEvent" /\ pub_emit[t]
       THEN /\ pub_msg' = [pub_msg EXCEPT ![t] = StatisticsUpdateMsg(total_count)]
            /\ pub_pc' = [pub_pc EXCEPT ![t] = "broadcast"]
            /\ UNCHANGED <<pub_ret, pub_event>>
       ELSE /\ pub_msg' = [pub_msg EXCEPT ![t] = NoMsg]
            /\ pub_pc' = [pub_pc EXCEPT ![t] = "idle"]
            /\ pub_ret' = [pub_ret EXCEPT ![t] = "Ok"]
            /\ UNCHANGED pub_event
    /\ pub_emit' = [pub_emit EXCEPT ![t] = FALSE]
    /\ pub_idx' = [pub_idx EXCEPT ![t] = 0]
    /\ UNCHANGED events_started
    /\ UNCHANGED <<job_registered, message_buffer_size, receiver_dropped, complete_vars, agg_vars, sub_vars>>
    /\ UNCHANGED <<sched_vars, engine_vars, token_vars, circuit_vars, cache_vars, transport_vars, batch_vars, bp_vars, rb_vars>>

\* ---- complete_job (streaming.rs:297-317), called once in a run
JobCompletedMsg(total_shots) == [kind |-> "JobCompleted", n |-> total_shots]

\* streaming.rs:298-305: the job is looked up under jobs.read() and its
\* statistics are read; an unknown job returns JobNotFound.
complete_job_begin ==
    /\ complete_pc = "idle"
    /\ complete_job_ret = "none"
    /\ IF job_registered
       THEN /\ complete_pc' = "broadcast"
            /\ complete_total_shots' = total_count
            /\ UNCHANGED complete_job_ret
       ELSE /\ complete_job_ret' = "JobNotFound"
            /\ UNCHANGED <<complete_pc, complete_total_shots>>
    /\ UNCHANGED complete_idx
    /\ UNCHANGED <<job_registered, message_buffer_size, receiver_dropped, agg_vars, sub_vars, pub_vars>>
    /\ UNCHANGED <<sched_vars, engine_vars, token_vars, circuit_vars, cache_vars, transport_vars, batch_vars, bp_vars, rb_vars>>

\* streaming.rs:314 and 320: broadcast_to_job takes subscribers.read().
complete_job_lock ==
    /\ complete_pc = "broadcast"
    /\ ~SubscribersWriterParked
    /\ complete_pc' = "send"
    /\ complete_idx' = 1
    /\ UNCHANGED <<complete_total_shots, complete_job_ret>>
    /\ UNCHANGED <<job_registered, message_buffer_size, receiver_dropped, agg_vars, sub_vars, pub_vars>>
    /\ UNCHANGED <<sched_vars, engine_vars, token_vars, circuit_vars, cache_vars, transport_vars, batch_vars, bp_vars, rb_vars>>

\* streaming.rs:322-332: JobCompleted goes to every subscriber (should_send is
\* true for it); send waits while the subscriber's channel is full.
complete_job_send ==
    /\ complete_pc = "send"
    /\ complete_idx <= Len(subscribers)
    /\ LET sub == subscribers[complete_idx]
           msg == JobCompletedMsg(complete_total_shots)
       IN /\ should_send(sub, msg)
          /\ IF receiver_dropped[sub.subscriber_id]
             THEN UNCHANGED mailbox
             ELSE /\ ~MailboxFull(sub.subscriber_id)
                  /\ mailbox' = [mailbox EXCEPT ![sub.subscriber_id] = Append(@, msg)]
    /\ complete_idx' = complete_idx + 1
    /\ UNCHANGED <<complete_pc, complete_total_shots, complete_job_ret>>
    /\ UNCHANGED <<subscribers, read_count, sub_pc, sub_replay, sub_call>>
    /\ UNCHANGED <<job_registered, message_buffer_size, receiver_dropped, agg_vars, pub_vars>>
    /\ UNCHANGED <<sched_vars, engine_vars, token_vars, circuit_vars, cache_vars, transport_vars, batch_vars, bp_vars, rb_vars>>

\* streaming.rs:333-336 and 314-316: the loop is over, the guard is dropped and
\* complete_job returns Ok(()). The job's context stays in the jobs map.
complete_job_return ==
    /\ complete_pc = "send"
    /\ complete_idx > Len(subscribers)
    /\ complete_pc' = "idle"
    /\ complete_idx' = 0
    /\ complete_job_ret' = "Ok"
    /\ UNCHANGED complete_total_shots
    /\ UNCHANGED <<job_registered, message_buffer_size, receiver_dropped, agg_vars, sub_vars, pub_vars>>
    /\ UNCHANGED <<sched_vars, engine_vars, token_vars, circuit_vars, cache_vars, transport_vars, batch_vars, bp_vars, rb_vars>>

CompleteJobStepNext ==
    \/ complete_job_lock
    \/ complete_job_send
    \/ complete_job_return

\* ---- subscribe (streaming.rs:259-289)
\* streaming.rs:264-265: the channel and the subscriber id are created.
subscribe_create(s, measurements, statistics) ==
    /\ sub_pc[s] = "idle"
    /\ \A u \in 1..(s - 1) : sub_pc[u] # "idle"
    /\ sub_pc' = [sub_pc EXCEPT ![s] = "get_all"]
    /\ sub_call' = [sub_call EXCEPT ![s] =
                      [include_measurements |-> measurements,
                       include_statistics |-> statistics,
                       job_found |-> FALSE,
                       created_at |-> events_started]]
    /\ UNCHANGED <<subscribers, mailbox, read_count, sub_replay>>
    /\ UNCHANGED <<job_registered, message_buffer_size, receiver_dropped, complete_vars, agg_vars, pub_vars>>
    /\ UNCHANGED <<sched_vars, engine_vars, token_vars, circuit_vars, cache_vars, transport_vars, batch_vars, bp_vars, rb_vars>>

\* streaming.rs:268-270: under jobs.read(), the replay buffer is copied.
subscribe_get_all(s) ==
    /\ sub_pc[s] = "get_all"
    /\ sub_pc' = [sub_pc EXCEPT ![s] = "replay"]
    /\ sub_replay' = [sub_replay EXCEPT ![s] = IF job_registered THEN get_all ELSE <<>>]
    /\ sub_call' = [sub_call EXCEPT ![s].job_found = job_registered]
    /\ UNCHANGED <<subscribers, mailbox, read_count>>
    /\ UNCHANGED <<job_registered, message_buffer_size, receiver_dropped, complete_vars, agg_vars, pub_vars>>
    /\ UNCHANGED <<sched_vars, engine_vars, token_vars, circuit_vars, cache_vars, transport_vars, batch_vars, bp_vars, rb_vars>>

\* streaming.rs:271-275: each copied message is sent into the new channel,
\* whatever its kind and the subscription's flags; send waits while it is full.
subscribe_replay(s) ==
    /\ sub_pc[s] = "replay"
    /\ IF sub_replay[s] = <<>>
       THEN /\ sub_pc' = [sub_pc EXCEPT ![s] = "register"]
            /\ UNCHANGED <<mailbox, sub_replay>>
       ELSE /\ ~MailboxFull(s)
            /\ mailbox' = [mailbox EXCEPT ![s] = Append(@, Head(sub_replay[s]))]
            /\ sub_replay' = [sub_replay EXCEPT ![s] = Tail(@)]
            /\ UNCHANGED sub_pc
    /\ UNCHANGED <<subscribers, read_count, sub_call>>
    /\ UNCHANGED <<job_registered, message_buffer_size, receiver_dropped, complete_vars, agg_vars, pub_vars>>
    /\ UNCHANGED <<sched_vars, engine_vars, token_vars, circuit_vars, cache_vars, transport_vars, batch_vars, bp_vars, rb_vars>>

\* streaming.rs:277-288: the handle is appended under subscribers.write(), which
\* waits for every reader to leave; then the receiver is returned.
subscribe_register(s) ==
    /\ sub_pc[s] \in {"register", "register_wait"}
    /\ IF SubscribersReadLocked
       THEN /\ sub_pc[s] = "register"
            /\ sub_pc' = [sub_pc EXCEPT ![s] = "register_wait"]
            /\ UNCHANGED subscribers
       ELSE /\ sub_pc' = [sub_pc EXCEPT ![s] = "done"]
            /\ subscribers' = Append(subscribers,
                                [subscriber_id |-> s,
                                 include_measurements |-> sub_call[s].include_measurements,
                                 include_statistics |-> sub_call[s].include_statistics])
    /\ UNCHANGED <<mailbox, read_count, sub_replay, sub_call>>
    /\ UNCHANGED <<job_registered, message_buffer_size, receiver_dropped, complete_vars, agg_vars, pub_vars>>
    /\ UNCHANGED <<sched_vars, engine_vars, token_vars, circuit_vars, cache_vars, transport_vars, batch_vars, bp_vars, rb_vars>>

\* The caller of subscribe receives the next message from the returned receiver.
recv(s) ==
    /\ sub_pc[s] = "done"
    /\ ~receiver_dropped[s]
    /\ read_count[s] < Len(mailbox[s])
    /\ read_count' = [read_count EXCEPT ![s] = @ + 1]
    /\ UNCHANGED <<subscribers, mailbox, sub_pc, sub_replay, sub_call>>
    /\ UNCHANGED <<job_registered, message_buffer_size, receiver_dropped, complete_vars, agg_vars, pub_vars>>
    /\ UNCHANGED <<sched_vars, engine_vars, token_vars, circuit_vars, cache_vars, transport_vars, batch_vars, bp_vars, rb_vars>>

\* The caller of subscribe drops the receiver it was given.
drop_receiver(s) ==
    /\ sub_pc[s] = "done"
    /\ ~receiver_dropped[s]
    /\ receiver_dropped' = [receiver_dropped EXCEPT ![s] = TRUE]
    /\ UNCHANGED <<job_registered, message_buffer_size, agg_vars, sub_vars, pub_vars,
                   complete_vars>>
    /\ UNCHANGED <<sched_vars, engine_vars, token_vars, circuit_vars, cache_vars, transport_vars, batch_vars, bp_vars, rb_vars>>

\* A subscriber's handle is in the job's list.
Subscribed(s) == \E i \in 1..Len(subscribers) : subscribers[i].subscriber_id = s

\* streaming.rs:291-295: under subscribers.write(), retain the other handles.
unsubscribe(s) ==
    /\ sub_pc[s] = "done"
    /\ Subscribed(s)
    /\ ~SubscribersReadLocked
    /\ LET other(h) == h.subscriber_id # s
       IN subscribers' = SelectSeq(subscribers, other)
    /\ UNCHANGED <<mailbox, read_count, sub_pc, sub_replay, sub_call>>
    /\ UNCHANGED <<job_registered, message_buffer_size, receiver_dropped, agg_vars,
                   pub_vars, complete_vars>>
    /\ UNCHANGED <<sched_vars, engine_vars, token_vars, circuit_vars, cache_vars, transport_vars, batch_vars, bp_vars, rb_vars>>

\* streaming.rs:339-345
subscriber_count == Len(subscribers)

\* What the holder of a receiver can do between the server's calls.
ReceiverNext ==
    \/ \E s \in Subscribers : drop_receiver(s)
    \/ \E s \in Subscribers : unsubscribe(s)

\* The steps of calls already made.
StreamStepNext ==
    \/ \E t \in Publishers : check_and_wait_load(t)
    \/ \E t \in Publishers : check_and_wait_notified(t)
    \/ \E t \in Publishers : check_and_wait_fetch_add(t)
    \/ \E t \in Publishers : publish_measurement_push(t)
    \/ \E t \in Publishers : publish_measurement_aggregate(t)
    \/ \E t \in Publishers : broadcast_to_job_lock(t)
    \/ \E t \in Publishers : broadcast_to_job_send(t)
    \/ \E t \in Publishers : broadcast_to_job_return(t)
    \/ \E s \in Subscribers : subscribe_get_all(s)
    \/ \E s \in Subscribers : subscribe_replay(s)
    \/ \E s \in Subscribers : subscribe_register(s)
    \/ \E s \in Subscribers : recv(s)

\* New calls.
StreamCallNext ==
    \/ register_job
    \/ \E t \in Publishers : publish_measurement_begin(t)
    \/ \E s \in Subscribers : \E m, st \in BOOLEAN : subscribe_create(s, m, st)

StreamNext == StreamCallNext \/ StreamStepNext

\* No publish_measurement, complete_job or subscribe call is under way.
NoCallActive ==
    /\ \A t \in Publishers : pub_pc[t] = "idle"
    /\ complete_pc = "idle"
    /\ \A s \in Subscribers : sub_pc[s] \in {"idle", "done"}

\* Calls made one after the other: a call starts once the previous one is over.
SequentialStreamNext ==
    \/ (NoCallActive /\ StreamCallNext)
    \/ (NoCallActive /\ complete_job_begin)
    \/ (NoCallActive /\ ReceiverNext)
    \/ StreamStepNext
    \/ CompleteJobStepNext

\* =========================================================================
\* 6. HybridTransport and DatagramChannel (webtransport.rs)
\* =========================================================================
TransportModes == {"Datagram", "Stream", "Hybrid"}

\* AdaptationConfig::default(), thresholds in percent (webtransport.rs:456-457)
loss_threshold_to_stream == 5
loss_threshold_to_datagram == 1

Senders == 1..NumSenders

\* What send_measurement returned: Ok(seq) or the AsyncError.
NotReturned == [kind |-> "none", seq |-> 0]
Ok(seq) == [kind |-> "Ok", seq |-> seq]
AsyncError == [kind |-> "AsyncError", seq |-> 0]

\* A loss rate is kept as the fraction lost / of.
NoLoss == [lost |-> 0, of |-> 1]

\* DatagramChannel::new and HybridTransport::new (webtransport.rs:316-327,
\* 485-499): the mode starts as Hybrid, every counter at 0.
HybridTransportNew(window) ==
    /\ transport_mode = "Hybrid"
    /\ mode_switches = 0
    /\ current_loss_rate = NoLoss
    /\ stats_sent = 0
    /\ stats_received = 0
    /\ eval_pc = "idle"
    /\ eval_current_mode = "Hybrid"
    /\ eval_new_mode = "Hybrid"
    /\ evaluation_window = window
    /\ elapsed = 0
    /\ dg_sequence = 0
    /\ dg_receivers = 0
    /\ dg_pc = [t \in Senders |-> "idle"]
    /\ dg_seq = [t \in Senders |-> 0]
    /\ dg_ret = [t \in Senders |-> NotReturned]
    /\ dg_assigned = <<>>

TransportIdle == HybridTransportNew(1)

\* webtransport.rs:305-313: 1.0 - received / sent, or 0.0 when nothing was sent.
loss_rate ==
    IF stats_sent > 0
    THEN [lost |-> stats_sent - stats_received, of |-> stats_sent]
    ELSE NoLoss

\* The loss is above / below a percentage, in exact arithmetic.
AbovePercent(loss, percent) == 100 * loss.lost > percent * loss.of
BelowPercent(loss, percent) == 100 * loss.lost < percent * loss.of

\* webtransport.rs:540: loss_rate > 0.05 on f64 values. A loss of exactly 5% is
\* computed as 1.0 - 0.95 = 0.050000000000000044, which is greater than the
\* f64 0.05; every other ratio compares as in exact arithmetic.
AboveThresholdToStream(loss) ==
    \/ AbovePercent(loss, loss_threshold_to_stream)
    \/ 100 * loss.lost = loss_threshold_to_stream * loss.of

\* webtransport.rs:547: loss_rate < 0.01 on f64 values; 1.0 - 0.99 is
\* 0.010000000000000009, not below the f64 0.01, as in exact arithmetic.
BelowThresholdToDatagram(loss) == BelowPercent(loss, loss_threshold_to_datagram)

\* webtransport.rs:538-554
NewMode(current_mode, loss) ==
    IF current_mode = "Datagram"
    THEN (IF AboveThresholdToStream(loss) THEN "Stream" ELSE "Datagram")
    ELSE IF current_mode = "Stream"
    THEN (IF BelowThresholdToDatagram(loss) THEN "Datagram" ELSE "Stream")
    ELSE "Hybrid"

\* webtransport.rs:534-554: the loss rate is computed and stored in the
\* metrics, the mode is read under mode.read() and the new mode is chosen.
evaluate_and_adapt_read ==
    /\ eval_pc = "idle"
    /\ mode_switches < MaxSwitches
    /\ current_loss_rate' = loss_rate
    /\ eval_current_mode' = transport_mode
    /\ eval_new_mode' = NewMode(transport_mode, loss_rate)
    /\ eval_pc' = "write"
    /\ UNCHANGED <<transport_mode, mode_switches, stats_received, evaluation_window, elapsed>>
    /\ UNCHANGED <<datagram_vars, stats_sent>>
    /\ UNCHANGED <<sched_vars, engine_vars, token_vars, circuit_vars, cache_vars, batch_vars, bp_vars, rb_vars, server_vars>>

\* webtransport.rs:556-560: a new mode is written under mode.write() and
\* counted.
evaluate_and_adapt_write ==
    /\ eval_pc = "write"
    /\ IF eval_new_mode # eval_current_mode
       THEN /\ transport_mode' = eval_new_mode
            /\ mode_switches' = mode_switches + 1
            /\ elapsed' = 0
       ELSE UNCHANGED <<transport_mode, mode_switches, elapsed>>
    /\ eval_pc' = "idle"
    /\ UNCHANGED <<current_loss_rate, stats_received, eval_current_mode, eval_new_mode,
                   evaluation_window>>
    /\ UNCHANGED <<datagram_vars, stats_sent>>
    /\ UNCHANGED <<sched_vars, engine_vars, token_vars, circuit_vars, cache_vars, batch_vars, bp_vars, rb_vars, server_vars>>

\* webtransport.rs:567-569
force_mode(mode) ==
    /\ transport_mode' = mode
    /\ UNCHANGED <<mode_switches, current_loss_rate, stats_received, eval_pc,
                   eval_current_mode, eval_new_mode, evaluation_window, elapsed>>
    /\ UNCHANGED <<datagram_vars, stats_sent>>
    /\ UNCHANGED <<sched_vars, engine_vars, token_vars, circuit_vars, cache_vars, batch_vars, bp_vars, rb_vars, server_vars>>

\* The counters of DatagramStats are public atomics; the datagrams sent and
\* acknowledged between two evaluations leave them at any values
\* (webtransport.rs:881-882 stores them directly).
stats_store(sent, received) ==
    /\ stats_sent' = sent
    /\ stats_received' = received
    /\ UNCHANGED <<transport_mode, mode_switches, current_loss_rate, eval_pc,
                   eval_current_mode, eval_new_mode, evaluation_window, elapsed>>
    /\ UNCHANGED datagram_vars
    /\ UNCHANGED <<sched_vars, engine_vars, token_vars, circuit_vars, cache_vars, batch_vars, bp_vars, rb_vars, server_vars>>

\* One tick of the clock.
tick ==
    /\ elapsed < evaluation_window
    /\ elapsed' = elapsed + 1
    /\ UNCHANGED <<transport_mode, mode_switches, current_loss_rate, stats_received,
                   eval_pc, eval_current_mode, eval_new_mode, evaluation_window>>
    /\ UNCHANGED <<datagram_vars, stats_sent>>
    /\ UNCHANGED <<sched_vars, engine_vars, token_vars, circuit_vars, cache_vars, batch_vars, bp_vars, rb_vars, server_vars>>

\* webtransport.rs:350-352, and the drop of a receiver it returned.
datagram_subscribe ==
    /\ dg_receivers < MaxReceivers
    /\ dg_receivers' = dg_receivers + 1
    /\ UNCHANGED <<dg_sequence, dg_pc, dg_seq, dg_ret, dg_assigned>>
    /\ UNCHANGED <<hybrid_vars, stats_sent>>
    /\ UNCHANGED <<sched_vars, engine_vars, token_vars, circuit_vars, cache_vars, batch_vars, bp_vars, rb_vars, server_vars>>

drop_datagram_receiver ==
    /\ dg_receivers > 0
    /\ dg_receivers' = dg_receivers - 1
    /\ UNCHANGED <<dg_sequence, dg_pc, dg_seq, dg_ret, dg_assigned>>
    /\ UNCHANGED <<hybrid_vars, stats_sent>>
    /\ UNCHANGED <<sched_vars, engine_vars, token_vars, circuit_vars, cache_vars, batch_vars, bp_vars, rb_vars, server_vars>>

\* The entry of dg_assigned that holds task t's call in progress.
Assigned(t) == CHOOSE i \in DOMAIN dg_assigned :
                   dg_assigned[i].sender = t /\ dg_assigned[i].returned = "pending"

\* A sequence counter read without being advanced.
sequence_load(t) ==
    /\ dg_seq' = [dg_seq EXCEPT ![t] = dg_sequence]
    /\ UNCHANGED dg_sequence

\* webtransport.rs:330: self.sequence.fetch_add(1, SeqCst), one atomic step.
sequence_fetch_add(t) ==
    /\ dg_seq' = [dg_seq EXCEPT ![t] = dg_sequence]
    /\ dg_sequence' = dg_sequence + 1

\* webtransport.rs:329-338: the call takes its sequence number and builds the
\* payload.
send_measurement_begin(t) ==
    /\ dg_pc[t] = "idle"
    /\ Len(dg_assigned) < MaxSends
    /\ sequence_fetch_add(t)
    /\ dg_assigned' = Append(dg_assigned,
                             [sender |-> t, seq |-> dg_seq'[t], returned |-> "pending"])
    /\ dg_pc' = [dg_pc EXCEPT ![t] = "send"]
    /\ UNCHANGED <<dg_receivers, dg_ret>>
    /\ UNCHANGED <<hybrid_vars, stats_sent>>
    /\ UNCHANGED <<sched_vars, engine_vars, token_vars, circuit_vars, cache_vars, batch_vars, bp_vars, rb_vars, server_vars>>

\* webtransport.rs:340-344: broadcast send fails when the channel has no
\* receiver, and the call returns the AsyncError.
send_measurement_send(t) ==
    /\ dg_pc[t] = "send"
    /\ IF dg_receivers = 0
       THEN /\ dg_ret' = [dg_ret EXCEPT ![t] = AsyncError]
            /\ dg_assigned' = [dg_assigned EXCEPT ![Assigned(t)].returned = "AsyncError"]
            /\ dg_pc' = [dg_pc EXCEPT ![t] = "idle"]
       ELSE /\ dg_pc' = [dg_pc EXCEPT ![t] = "count"]
            /\ UNCHANGED <<dg_ret, dg_assigned>>
    /\ UNCHANGED <<dg_sequence, dg_receivers, dg_seq>>
    /\ UNCHANGED <<hybrid_vars, stats_sent>>
    /\ UNCHANGED <<sched_vars, engine_vars, token_vars, circuit_vars, cache_vars, batch_vars, bp_vars, rb_vars, server_vars>>

\* webtransport.rs:346-347: stats.sent.fetch_add(1); Ok(seq)
send_measurement_return(t) ==
    /\ dg_pc[t] = "count"
    /\ stats_sent' = stats_sent + 1
    /\ dg_ret' = [dg_ret EXCEPT ![t] = Ok(dg_seq[t])]
    /\ dg_assigned' = [dg_assigned EXCEPT ![Assigned(t)].returned = "Ok"]
    /\ dg_pc' = [dg_pc EXCEPT ![t] = "idle"]
    /\ UNCHANGED <<dg_sequence, dg_receivers, dg_seq>>
    /\ UNCHANGED hybrid_vars
    /\ UNCHANGED <<sched_vars, engine_vars, token_vars, circuit_vars, cache_vars, batch_vars, bp_vars, rb_vars, server_vars>>

DatagramNext ==
    \/ datagram_subscribe
    \/ drop_datagram_receiver
    \/ \E t \in Senders : send_measurement_begin(t)
    \/ \E t \in Senders : send_measurement_send(t)
    \/ \E t \in Senders : send_measurement_return(t)

HybridNext ==
    \/ evaluate_and_adapt_read
    \/ evaluate_and_adapt_write
    \/ \E mode \in TransportModes : force_mode(mode)
    \/ \E sent \in {0, MaxSent} : \E received \in 0..sent : stats_store(sent, received)
    \/ tick

\* Calls made one after the other: the mode is forced and the statistics
\* change between two evaluations, never in the middle of one.
SequentialHybridNext ==
    \/ evaluate_and_adapt_read
    \/ evaluate_and_adapt_write
    \/ (eval_pc = "idle" /\ \E mode \in TransportModes : force_mode(mode))
    \/ \E sent \in {0, MaxSent} : \E received \in 0..sent : stats_store(sent, received)
    \/ tick

\* =========================================================================
\* 7. BatchExecutor (async_runtime.rs:379-474)
\* =========================================================================
\* The (circuit, shots) pairs a batch is made of.
Pairs == [circuit : 1..NumCircuits, shots : 1..MaxShots]

\* The batches execute_batch is called with.
RECURSIVE BatchesOfLen(_)
BatchesOfLen(n) ==
    IF n = 0 THEN {<<>>}
    ELSE {Append(b, p) : b \in BatchesOfLen(n - 1), p \in Pairs}

Batches == UNION {BatchesOfLen(n) : n \in 0..MaxBatch}

BatchIdle ==
    /\ batch_pc = "idle"
    /\ batch_circuits = <<>>
    /\ batch_tasks = <<>>
    /\ batch_results = <<>>
    /\ batch_finished = <<>>
    /\ batch_completed = 0
    /\ batch_progress = <<>>

\* The output of a task that has not finished.
NotFinished == [kind |-> "pending", circuit_id |-> 0, measurements |-> 0]

\* execution.rs:296-304: the ExecutionResult of a pair names its circuit and
\* holds one measurement per shot; a panic inside spawn_blocking is the
\* AsyncError of async_runtime.rs:90.
ExecutionResult(pair, outcome) ==
    IF outcome = "ok"
    THEN [kind |-> "Ok", circuit_id |-> pair.circuit, measurements |-> pair.shots]
    ELSE [kind |-> "AsyncError", circuit_id |-> 0, measurements |-> 0]

\* async_runtime.rs:389-403 and 416-438: one task is spawned per pair, its
\* handle pushed in input order; an empty batch returns at once.
execute_batch(circuits, with_progress) ==
    /\ batch_pc = "idle"
    /\ batch_circuits' = circuits
    /\ batch_tasks' = [i \in 1..Len(circuits) |->
                          [pc |-> "acquire", with_progress |-> with_progress,
                           result |-> NotFinished]]
    /\ batch_results' = <<>>
    /\ batch_pc' = IF Len(circuits) = 0 THEN "returned" ELSE "await"
    /\ UNCHANGED <<batch_finished, batch_completed, batch_progress>>
    /\ UNCHANGED <<sched_vars, engine_vars, token_vars, circuit_vars, cache_vars, transport_vars, bp_vars, rb_vars,
                   server_vars>>

\* async_runtime.rs:75-82 inside the spawned task: acquire_owned().await
batch_task_acquire(i) ==
    /\ batch_tasks[i].pc = "acquire"
    /\ job_semaphore > 0
    /\ job_semaphore' = job_semaphore - 1
    /\ batch_tasks' = [batch_tasks EXCEPT ![i].pc = "executing"]
    /\ UNCHANGED <<batch_pc, batch_circuits, batch_results, batch_finished,
                   batch_completed, batch_progress>>
    /\ UNCHANGED <<active_jobs, max_concurrent_jobs, worker_pc,
                   exec_outcome, result_channel, cancel_seen_at, await_ret, calls>>
    /\ UNCHANGED <<sched_vars, token_vars, circuit_vars, cache_vars, transport_vars, bp_vars, rb_vars, server_vars>>

\* async_runtime.rs:86-93, then 431-434 in execute_batch_with_progress: the
\* execution ends and drops its permit, the task counts itself, reports
\* (done, total) and finishes with the result.
batch_task_finish(i, outcome) ==
    /\ batch_tasks[i].pc = "executing"
    /\ job_semaphore' = job_semaphore + 1
    /\ batch_tasks' = [batch_tasks EXCEPT
                          ![i].pc = "done",
                          ![i].result = ExecutionResult(batch_circuits[i], outcome)]
    /\ batch_finished' = Append(batch_finished, i)
    /\ IF batch_tasks[i].with_progress
       THEN /\ batch_completed' = batch_completed + 1
            /\ batch_progress' = Append(batch_progress,
                                        <<batch_completed + 1, Len(batch_circuits)>>)
       ELSE UNCHANGED <<batch_completed, batch_progress>>
    /\ UNCHANGED <<batch_pc, batch_circuits, batch_results>>
    /\ UNCHANGED <<active_jobs, max_concurrent_jobs, worker_pc,
                   exec_outcome, result_channel, cancel_seen_at, await_ret, calls>>
    /\ UNCHANGED <<sched_vars, token_vars, circuit_vars, cache_vars, transport_vars, bp_vars, rb_vars, server_vars>>

\* Results taken from the tasks in the order in which they finished.
first_finished_handle ==
    IF Len(batch_finished) > Len(batch_results)
    THEN batch_finished[Len(batch_results) + 1]
    ELSE Len(batch_results) + 1

\* async_runtime.rs:405-406: `for handle in handles`, the handle awaited next.
next_handle == Len(batch_results) + 1

\* async_runtime.rs:405-413 and 440-451: the next handle is awaited and its
\* result pushed; after the last one the list is returned.
execute_batch_await ==
    /\ batch_pc = "await"
    /\ batch_tasks[next_handle].pc = "done"
    /\ batch_results' = Append(batch_results, batch_tasks[next_handle].result)
    /\ batch_pc' = IF Len(batch_results') = Len(batch_circuits) THEN "returned"
                   ELSE "await"
    /\ UNCHANGED <<batch_circuits, batch_tasks, batch_finished, batch_completed,
                   batch_progress>>
    /\ UNCHANGED <<sched_vars, engine_vars, token_vars, circuit_vars, cache_vars, transport_vars, bp_vars, rb_vars,
                   server_vars>>

BatchNext ==
    \/ (batch_pc = "idle" /\ \E circuits \in Batches : \E with_progress \in BOOLEAN :
                                 execute_batch(circuits, with_progress))
    \/ \E i \in DOMAIN batch_tasks : batch_task_acquire(i)
    \/ \E i \in DOMAIN batch_tasks : \E outcome \in {"ok", "panic"} :
           batch_task_finish(i, outcome)
    \/ execute_batch_await

\* =========================================================================
\* 8. QuantumCircuitStructure (circuit_program.rs)
\* =========================================================================
\* Qubit indexes a builder call is given: the valid ones and the first
\* invalid one, index = qubit-count.
QubitArgs == 0..MaxQubits

\* Angles are multiples of pi/2, named by the multiple.
Thetas == 0..3

\* circuit_program.rs:33-40
QuantumCircuitStructureNew(qubits) ==
    /\ number_of_quantum_bits = qubits
    /\ gate_application_instances = <<>>

CircuitIdle == QuantumCircuitStructureNew(1)

\* circuit_program.rs:58-70: the instance is pushed, whatever its targets.
add_gate_application(gate, theta, target_quantum_bits) ==
    /\ Len(gate_application_instances) < MaxGates
    /\ gate_application_instances' =
           Append(gate_application_instances,
                  [gate |-> gate, theta |-> theta,
                   target_quantum_bits |-> target_quantum_bits])
    /\ UNCHANGED <<number_of_quantum_bits, execution_vars>>
    /\ UNCHANGED <<sched_vars, engine_vars, token_vars, transport_vars, batch_vars,
                   cache_vars, bp_vars, rb_vars, server_vars>>

\* circuit_program.rs:77-103
apply_hadamard_gate(qubit) == add_gate_application("hadamard_gate", 0, <<qubit>>)
apply_pauli_x_gate(qubit) == add_gate_application("pauli_x_gate", 0, <<qubit>>)
apply_pauli_y_gate(qubit) == add_gate_application("pauli_y_gate", 0, <<qubit>>)
apply_pauli_z_gate(qubit) == add_gate_application("pauli_z_gate", 0, <<qubit>>)

\* circuit_program.rs:105-124
apply_rotation_x_gate(qubit, theta) ==
    add_gate_application("rotation_x_gate", theta, <<qubit>>)
apply_rotation_y_gate(qubit, theta) ==
    add_gate_application("rotation_y_gate", theta, <<qubit>>)
apply_rotation_z_gate(qubit, theta) ==
    add_gate_application("rotation_z_gate", theta, <<qubit>>)

\* circuit_program.rs:126-152
apply_controlled_not_gate(control, target) ==
    add_gate_application("controlled_not_gate", 0, <<control, target>>)
apply_controlled_phase_gate(control, target, theta) ==
    add_gate_application("controlled_phase_gate", theta, <<control, target>>)

\* circuit_program.rs:154-163
apply_swap_gate(qubit_a, qubit_b) ==
    add_gate_application("swap_gate", 0, <<qubit_a, qubit_b>>)

BuilderNext ==
    \/ \E qubit \in QubitArgs : apply_hadamard_gate(qubit)
    \/ \E qubit \in QubitArgs : apply_pauli_x_gate(qubit)
    \/ \E qubit \in QubitArgs : apply_pauli_y_gate(qubit)
    \/ \E qubit \in QubitArgs : apply_pauli_z_gate(qubit)
    \/ \E qubit \in QubitArgs : \E theta \in Thetas : apply_rotation_x_gate(qubit, theta)
    \/ \E qubit \in QubitArgs : \E theta \in Thetas : apply_rotation_y_gate(qubit, theta)
    \/ \E qubit \in QubitArgs : \E theta \in Thetas : apply_rotation_z_gate(qubit, theta)
    \/ \E control, target \in QubitArgs : apply_controlled_not_gate(control, target)
    \/ \E control, target \in QubitArgs : \E theta \in Thetas :
           apply_controlled_phase_gate(control, target, theta)
    \/ \E qubit_a, qubit_b \in QubitArgs : apply_swap_gate(qubit_a, qubit_b)

\* =========================================================================
\* 9. QuantumStateVector and the gates (state_backend.rs, gate_operations.rs)
\* =========================================================================
\* Amplitudes are kept exactly. A real number is <<a, b>>, standing for
\* a + b * sqrt(2); a Complex64 is [re, im] of two such numbers; a state
\* vector is its amplitudes together with `scale`, every amplitude standing for
\* the stored value divided by 2^scale. The f64 values of the code differ from
\* these by the rounding of each operation, a few units in the 16th digit.
RAdd(x, y) == <<x[1] + y[1], x[2] + y[2]>>
RNeg(x) == <<-x[1], -x[2]>>
RMul(x, y) == <<x[1] * y[1] + 2 * x[2] * y[2], x[1] * y[2] + x[2] * y[1]>>

Complex64New(re, im) == [re |-> re, im |-> im]
CZero == Complex64New(<<0, 0>>, <<0, 0>>)
COne == Complex64New(<<1, 0>>, <<0, 0>>)
CAdd(x, y) == Complex64New(RAdd(x.re, y.re), RAdd(x.im, y.im))
CNeg(x) == Complex64New(RNeg(x.re), RNeg(x.im))
CSub(x, y) == CAdd(x, CNeg(y))
CMul(x, y) == Complex64New(RAdd(RMul(x.re, y.re), RNeg(RMul(x.im, y.im))),
                           RAdd(RMul(x.re, y.im), RMul(x.im, y.re)))

\* x * (1 / SQRT_2) as a value over twice the denominator: (a + b sqrt2) / sqrt2
\* = (2b + a sqrt2) / 2.
RTimesInvSqrt2(x) == <<2 * x[2], x[1]>>
TimesInvSqrt2(x) == Complex64New(RTimesInvSqrt2(x.re), RTimesInvSqrt2(x.im))

\* cos and sin of k * pi/4 as values over the denominator 2.
CosQuarterTurns(k) ==
    CASE k % 8 = 0 -> <<2, 0>>  [] k % 8 = 1 -> <<0, 1>>  [] k % 8 = 2 -> <<0, 0>>
      [] k % 8 = 3 -> <<0, -1>> [] k % 8 = 4 -> <<-2, 0>> [] k % 8 = 5 -> <<0, -1>>
      [] k % 8 = 6 -> <<0, 0>>  [] OTHER -> <<0, 1>>
SinQuarterTurns(k) == CosQuarterTurns(k + 6)

\* Complex64::from_polar(1.0, angle) for angle = k * pi/4, over the denominator 2
FromPolarQuarterTurns(k) == Complex64New(CosQuarterTurns(k), SinQuarterTurns(k))

\* Complex64::from_polar(1.0, theta) for theta a multiple of pi/2: 1, i, -1, -i
FromPolarTheta(theta) ==
    CASE theta % 4 = 0 -> COne
      [] theta % 4 = 1 -> Complex64New(<<0, 0>>, <<1, 0>>)
      [] theta % 4 = 2 -> CNeg(COne)
      [] OTHER -> Complex64New(<<0, 0>>, <<-1, 0>>)

RECURSIVE Pow2(_)
Pow2(n) == IF n = 0 THEN 1 ELSE 2 * Pow2(n - 1)

\* state_backend.rs:40-48
zero_state(qubits) ==
    [number_of_quantum_bits |-> qubits,
     scale |-> 0,
     amplitudes |-> [i \in 0..(Pow2(qubits) - 1) |-> IF i = 0 THEN COne ELSE CZero]]

dimension(state) == Pow2(state.number_of_quantum_bits)

\* 1usize << (n - 1 - qubit), and the tests (i & mask) != 0, i | mask, i & !mask
Mask(state, qubit) == Pow2(state.number_of_quantum_bits - 1 - qubit)
BitSet(i, mask) == (i \div mask) % 2 = 1
WithBit(i, mask) == IF BitSet(i, mask) THEN i ELSE i + mask
WithoutBit(i, mask) == IF BitSet(i, mask) THEN i - mask ELSE i

\* The loops below visit every index pair (i, j = i | mask) once, at i, and
\* write both ends from the values read there, so element i of the new vector
\* is given from the old one.
SetAmplitudes(state, amps, scaled) ==
    [state EXCEPT !.amplitudes = amps, !.scale = IF scaled THEN @ + 1 ELSE @]

\* A Hadamard that writes the first amplitude before it reads it for the second.
HadamardInPlace(state, qubit) ==
    LET m == Mask(state, qubit)
        lo(i) == TimesInvSqrt2(CAdd(state.amplitudes[WithoutBit(i, m)],
                                    state.amplitudes[WithBit(i, m)]))
    IN SetAmplitudes(state,
           [i \in DOMAIN state.amplitudes |->
               IF ~BitSet(i, m) THEN lo(i)
               ELSE CSub(lo(i), state.amplitudes[i])],
           TRUE)

\* gate_operations.rs:46-62
Hadamard(state, qubit) ==
    LET m == Mask(state, qubit)
        a(i) == state.amplitudes[WithoutBit(i, m)]
        b(i) == state.amplitudes[WithBit(i, m)]
    IN SetAmplitudes(state,
           [i \in DOMAIN state.amplitudes |->
               IF ~BitSet(i, m) THEN TimesInvSqrt2(CAdd(a(i), b(i)))
               ELSE TimesInvSqrt2(CSub(a(i), b(i)))],
           TRUE)

\* gate_operations.rs:93-106
PauliX(state, qubit) ==
    LET m == Mask(state, qubit)
    IN SetAmplitudes(state,
           [i \in DOMAIN state.amplitudes |->
               state.amplitudes[IF BitSet(i, m) THEN i - m ELSE i + m]],
           FALSE)

\* gate_operations.rs:135-150: amplitude i becomes i * b, amplitude j -i * a
PauliY(state, qubit) ==
    LET m == Mask(state, qubit)
        a(i) == state.amplitudes[WithoutBit(i, m)]
        b(i) == state.amplitudes[WithBit(i, m)]
    IN SetAmplitudes(state,
           [i \in DOMAIN state.amplitudes |->
               IF ~BitSet(i, m) THEN CMul(Complex64New(<<0, 0>>, <<1, 0>>), b(i))
               ELSE CMul(Complex64New(<<0, 0>>, <<-1, 0>>), a(i))],
           FALSE)

\* gate_operations.rs:180-192
PauliZ(state, qubit) ==
    LET m == Mask(state, qubit)
    IN SetAmplitudes(state,
           [i \in DOMAIN state.amplitudes |->
               IF BitSet(i, m) THEN CNeg(state.amplitudes[i]) ELSE state.amplitudes[i]],
           FALSE)

\* gate_operations.rs:223-246, theta / 2 = theta quarter turns
RotationX(state, qubit, theta) ==
    LET m == Mask(state, qubit)
        a(i) == state.amplitudes[WithoutBit(i, m)]
        b(i) == state.amplitudes[WithBit(i, m)]
        cos_half == Complex64New(CosQuarterTurns(theta), <<0, 0>>)
        minus_i_sin_half == Complex64New(<<0, 0>>, RNeg(SinQuarterTurns(theta)))
    IN SetAmplitudes(state,
           [i \in DOMAIN state.amplitudes |->
               IF ~BitSet(i, m)
               THEN CAdd(CMul(cos_half, a(i)), CMul(minus_i_sin_half, b(i)))
               ELSE CAdd(CMul(minus_i_sin_half, a(i)), CMul(cos_half, b(i)))],
           TRUE)

\* gate_operations.rs:286-304
RotationY(state, qubit, theta) ==
    LET m == Mask(state, qubit)
        a(i) == state.amplitudes[WithoutBit(i, m)]
        b(i) == state.amplitudes[WithBit(i, m)]
        cos_half == Complex64New(CosQuarterTurns(theta), <<0, 0>>)
        sin_half == Complex64New(SinQuarterTurns(theta), <<0, 0>>)
    IN SetAmplitudes(state,
           [i \in DOMAIN state.amplitudes |->
               IF ~BitSet(i, m)
               THEN CSub(CMul(cos_half, a(i)), CMul(sin_half, b(i)))
               ELSE CAdd(CMul(sin_half, a(i)), CMul(cos_half, b(i)))],
           TRUE)

\* gate_operations.rs:337-355
RotationZ(state, qubit, theta) ==
    LET m == Mask(state, qubit)
        phase_0 == FromPolarQuarterTurns(8 - theta)
        phase_1 == FromPolarQuarterTurns(theta)
    IN SetAmplitudes(state,
           [i \in DOMAIN state.amplitudes |->
               IF ~BitSet(i, m) THEN CMul(phase_0, state.amplitudes[i])
               ELSE CMul(phase_1, state.amplitudes[i])],
           TRUE)

\* A controlled NOT that flips the target where the control bit is clear.
ControlledNotOnClearControl(state, control, target) ==
    LET control_mask == Mask(state, control)
        target_mask == Mask(state, target)
    IN SetAmplitudes(state,
           [i \in DOMAIN state.amplitudes |->
               IF ~BitSet(i, control_mask) /\ control_mask # target_mask
               THEN state.amplitudes[IF BitSet(i, target_mask) THEN i - target_mask
                                     ELSE i + target_mask]
               ELSE state.amplitudes[i]],
           FALSE)

\* gate_operations.rs:401-415
ControlledNot(state, control, target) ==
    LET control_mask == Mask(state, control)
        target_mask == Mask(state, target)
    IN SetAmplitudes(state,
           [i \in DOMAIN state.amplitudes |->
               IF BitSet(i, control_mask) /\ control_mask # target_mask
               THEN state.amplitudes[IF BitSet(i, target_mask) THEN i - target_mask
                                     ELSE i + target_mask]
               ELSE state.amplitudes[i]],
           FALSE)

\* gate_operations.rs:480-495
ControlledPhase(state, control, target, theta) ==
    LET control_mask == Mask(state, control)
        target_mask == Mask(state, target)
    IN SetAmplitudes(state,
           [i \in DOMAIN state.amplitudes |->
               IF BitSet(i, control_mask) /\ BitSet(i, target_mask)
               THEN CMul(FromPolarTheta(theta), state.amplitudes[i])
               ELSE state.amplitudes[i]],
           FALSE)

\* gate_operations.rs:554-570
Swap(state, qubit_a, qubit_b) ==
    LET mask_a == Mask(state, qubit_a)
        mask_b == Mask(state, qubit_b)
    IN SetAmplitudes(state,
           [i \in DOMAIN state.amplitudes |->
               IF BitSet(i, mask_a) /\ ~BitSet(i, mask_b)
               THEN state.amplitudes[i - mask_a + mask_b]
               ELSE IF BitSet(i, mask_b) /\ ~BitSet(i, mask_a)
               THEN state.amplitudes[i - mask_b + mask_a]
               ELSE state.amplitudes[i]],
           FALSE)

\* gate_operations.rs:639-655
Toffoli(state, control_qubit_1, control_qubit_2, target_qubit) ==
    LET c1_mask == Mask(state, control_qubit_1)
        c2_mask == Mask(state, control_qubit_2)
        t_mask == Mask(state, target_qubit)
    IN SetAmplitudes(state,
           [i \in DOMAIN state.amplitudes |->
               IF BitSet(i, c1_mask) /\ BitSet(i, c2_mask) /\ t_mask \notin {c1_mask, c2_mask}
               THEN state.amplitudes[IF BitSet(i, t_mask) THEN i - t_mask ELSE i + t_mask]
               ELSE state.amplitudes[i]],
           FALSE)

\* gate_instance.quantum_gate_interface.apply_to_full_state_vector(&mut state)
apply_to_full_state_vector(instance, state) ==
    LET t == instance.target_quantum_bits
        g == instance.gate
    IN CASE g = "hadamard_gate" -> Hadamard(state, t[1])
         [] g = "pauli_x_gate" -> PauliX(state, t[1])
         [] g = "pauli_y_gate" -> PauliY(state, t[1])
         [] g = "pauli_z_gate" -> PauliZ(state, t[1])
         [] g = "rotation_x_gate" -> RotationX(state, t[1], instance.theta)
         [] g = "rotation_y_gate" -> RotationY(state, t[1], instance.theta)
         [] g = "rotation_z_gate" -> RotationZ(state, t[1], instance.theta)
         [] g = "controlled_not_gate" -> ControlledNot(state, t[1], t[2])
         [] g = "controlled_phase_gate" -> ControlledPhase(state, t[1], t[2], instance.theta)
         [] g = "toffoli_gate" -> Toffoli(state, t[1], t[2], t[3])
         [] OTHER -> Swap(state, t[1], t[2])

\* execution.rs:175-179: the gates applied in order to the zero state
RECURSIVE ApplyGates(_, _)
ApplyGates(instances, state) ==
    IF instances = <<>> THEN state
    ELSE ApplyGates(Tail(instances), apply_to_full_state_vector(Head(instances), state))

\* Complex64::norm_sqr, as a real over the denominator 4^scale
norm_sqr(x) == RAdd(RMul(x.re, x.re), RMul(x.im, x.im))

\* A real a + b * sqrt(2) is positive.
Positive(x) ==
    \/ x[1] > 0 /\ x[2] >= 0
    \/ x[1] >= 0 /\ x[2] > 0
    \/ x[1] > 0 /\ x[2] < 0 /\ x[1] * x[1] > 2 * x[2] * x[2]
    \/ x[1] < 0 /\ x[2] > 0 /\ 2 * x[2] * x[2] > x[1] * x[1]

\* The binary digits of index without leading zeros.
RECURSIVE binary_digits(_, _)
binary_digits(qubits, index) ==
    IF qubits = 0 \/ index = 0 THEN <<>>
    ELSE Append(binary_digits(qubits - 1, index \div 2), index % 2)

\* state_backend.rs:125-130: the bits of index, most significant first
RECURSIVE index_to_bitstring(_, _)
index_to_bitstring(qubits, index) ==
    IF qubits = 0 THEN <<>>
    ELSE Append(index_to_bitstring(qubits - 1, index \div 2), index % 2)

\* state_backend.rs:116-121: the loop over the probabilities from index i on,
\* cumulative being the running sum over the denominator 4^scale and
\* random_value = quarters / 4. It returns the first index whose running sum is
\* above random_value, or dimension when there is none. When the two are equal
\* in exact arithmetic the f64 comparison goes either way (tie says which).
RECURSIVE measure_loop(_, _, _, _, _)
measure_loop(state, i, cumulative, quarters, tie) ==
    IF i = dimension(state) THEN i
    ELSE LET prob == norm_sqr(state.amplitudes[i])
             sum == RAdd(cumulative, prob)
             difference == RAdd(<<4 * sum[1], 4 * sum[2]>>,
                                <<-(quarters * Pow2(2 * state.scale)), 0>>)
         IN IF Positive(difference) \/ (tie /\ difference = <<0, 0>> /\ prob # <<0, 0>>)
            THEN i
            ELSE measure_loop(state, i + 1, sum, quarters, tie)

\* state_backend.rs:114-123
measure_all_deterministic(state, quarters, tie) ==
    LET found == measure_loop(state, 0, <<0, 0>>, quarters, tie)
        index == IF found = dimension(state) THEN dimension(state) - 1 ELSE found
    IN index_to_bitstring(state.number_of_quantum_bits, index)

\* =========================================================================
\* 10. CircuitExecutor (execution.rs)
\* =========================================================================
NoResult == [kind |-> "none"]

\* The values Uuid::new_v4() can return.
Uuids == 1..2

\* A state buffer of the given size, no gate applied yet.
StateVectorNew(qubits) ==
    /\ state_vector = zero_state(qubits)
    /\ gates_applied = 0

ExecutionIdle ==
    /\ execute_shots = 0
    /\ execution_result = NoResult
    /\ StateVectorNew(1)

\* QuantumCircuitStructure::new takes the first Uuid.
CircuitUuid == 0

\* Every target of every gate is a qubit of the register. On any other index
\* n - 1 - qubit overflows inside apply_to_full_state_vector.
TargetsInRange ==
    \A k \in DOMAIN gate_application_instances :
        \A p \in DOMAIN gate_application_instances[k].target_quantum_bits :
            gate_application_instances[k].target_quantum_bits[p] < number_of_quantum_bits

\* measurement.rs:24-46: MeasurementEvent::new(job_id, shot_idx, bitstring)
MeasurementEventNew(job_id, shot_index, bitstring) ==
    [job_id |-> job_id, shot_index |-> shot_index, bitstring |-> bitstring]

\* execution.rs:171-199: CircuitExecutor::execute(circuit, shots), the random
\* values of the shots given by randoms.
execute(shots, randoms, tie) ==
    /\ TargetsInRange
    /\ \E job_id \in Uuids :
       \E state \in {ApplyGates(gate_application_instances,
                                zero_state(number_of_quantum_bits))} :
          execution_result' =
              [kind |-> "ExecutionResult",
               job_id |-> job_id,
               circuit_id |-> CircuitUuid,
               final_state |-> state,
               measurements |->
                   [s \in 1..shots |->
                       MeasurementEventNew(job_id, s - 1,
                           measure_all_deterministic(state, randoms[s], tie))]]
    /\ execute_shots' = shots
    /\ UNCHANGED <<number_of_quantum_bits, gate_application_instances, state_vector,
                   gates_applied>>
    /\ UNCHANGED <<sched_vars, engine_vars, token_vars, transport_vars, batch_vars,
                   cache_vars, bp_vars, rb_vars, server_vars>>

ExecuteNext ==
    /\ execution_result = NoResult
    /\ \E shots \in 0..MaxShots : \E randoms \in [1..shots -> RandomQuarters] :
           \E tie \in BOOLEAN : execute(shots, randoms, tie)

\* Builder calls with qubits of the register, the gates of an entangling
\* circuit.
EntanglingBuilderNext ==
    /\ execution_result = NoResult
    /\ \/ \E qubit \in 0..(number_of_quantum_bits - 1) : apply_hadamard_gate(qubit)
       \/ \E control, target \in 0..(number_of_quantum_bits - 1) :
              control # target /\ apply_controlled_not_gate(control, target)

CircuitNext == EntanglingBuilderNext \/ ExecuteNext

\* The gate instances a builder call can record on a register of n qubits,
\* with valid and pairwise distinct targets.
GateInstances(n) ==
    LET one == {"hadamard_gate", "pauli_x_gate", "pauli_y_gate", "pauli_z_gate"}
        rotation == {"rotation_x_gate", "rotation_y_gate", "rotation_z_gate"}
        qubits == 0..(n - 1)
        pairs == {t \in qubits \X qubits : t[1] # t[2]}
        triples == {t \in qubits \X qubits \X qubits :
                        t[1] # t[2] /\ t[1] # t[3] /\ t[2] # t[3]}
    IN  {[gate |-> g, theta |-> 0, target_quantum_bits |-> <<q>>] : g \in one, q \in qubits}
        \cup {[gate |-> g, theta |-> th, target_quantum_bits |-> <<q>>] :
                  g \in rotation, th \in Thetas, q \in qubits}
        \cup {[gate |-> g, theta |-> 0, target_quantum_bits |-> t] :
                  g \in {"controlled_not_gate", "swap_gate"}, t \in pairs}
        \cup {[gate |-> "controlled_phase_gate", theta |-> th, target_quantum_bits |-> t] :
                  th \in Thetas, t \in pairs}
        \cup {[gate |-> "toffoli_gate", theta |-> 0, target_quantum_bits |-> t] : t \in triples}

\* A gate applied to the state buffer, as in gate_operations.rs:693-706.
apply_gate(instance) ==
    /\ gates_applied < MaxApplied
    /\ state_vector' = apply_to_full_state_vector(instance, state_vector)
    /\ gates_applied' = gates_applied + 1
    /\ UNCHANGED <<number_of_quantum_bits, gate_application_instances,
                   execute_shots, execution_result>>
    /\ UNCHANGED <<sched_vars, engine_vars, token_vars, transport_vars, batch_vars,
                   cache_vars, bp_vars, rb_vars, server_vars>>

GatesNext ==
    \E instance \in GateInstances(state_vector.number_of_quantum_bits) :
        apply_gate(instance)

\* =========================================================================
\* 11. GateMatrixCache (optimization.rs)
\* =========================================================================
\* GateCacheKey values and the matrices stored under them.
CacheKeys == 1..3
Matrices == 1..2
NoReturn == [kind |-> "none"]

\* optimization.rs:269-274: GateMatrixCache::new(max_entries); the HashMap is
\* a function from the keys present to their matrices.
GateMatrixCacheNew(entries) ==
    /\ cache = <<>>
    /\ max_entries = entries
    /\ cache_ret = NoReturn
    /\ cache_last = NoReturn

CacheIdle == GateMatrixCacheNew(1)

\* HashMap::insert and HashMap::remove
HashMapInsert(map, key, value) ==
    [k \in DOMAIN map \cup {key} |-> IF k = key THEN value ELSE map[k]]
HashMapRemove(map, key) == [k \in DOMAIN map \ {key} |-> map[k]]

\* optimization.rs:310-312 (len)
cache_len == Cardinality(DOMAIN cache)

\* optimization.rs:276-278: get(key)
cache_get(key) ==
    /\ cache_ret' = IF key \in DOMAIN cache
                    THEN [kind |-> "Some", key |-> key, matrix |-> cache[key]]
                    ELSE [kind |-> "None", key |-> key]
    /\ cache_last' = [kind |-> "get", key |-> key]
    /\ UNCHANGED <<cache, max_entries>>
    /\ UNCHANGED <<sched_vars, engine_vars, token_vars, transport_vars, batch_vars,
                   circuit_vars, bp_vars, rb_vars, server_vars>>

\* optimization.rs:280-290: insert(key, matrix). cache.keys().next() is the
\* first key in the iteration order of the HashMap, which is any key present
\* (first_key).
cache_insert(key, matrix, first_key) ==
    /\ IF cache_len >= max_entries
       THEN IF DOMAIN cache # {}
            THEN /\ first_key \in DOMAIN cache
                 /\ cache' = HashMapInsert(HashMapRemove(cache, first_key), key, matrix)
            ELSE cache' = HashMapInsert(cache, key, matrix)
       ELSE cache' = HashMapInsert(cache, key, matrix)
    /\ cache_ret' = [kind |-> "unit"]
    /\ cache_last' = [kind |-> "stored", key |-> key, matrix |-> matrix]
    /\ UNCHANGED max_entries
    /\ UNCHANGED <<sched_vars, engine_vars, token_vars, transport_vars, batch_vars,
                   circuit_vars, bp_vars, rb_vars, server_vars>>

\* optimization.rs:292-304: get_or_compute(key, compute), compute() returning
\* matrix
get_or_compute(key, matrix) ==
    /\ IF key \in DOMAIN cache
       THEN /\ cache_ret' = [kind |-> "Arc", key |-> key, matrix |-> cache[key]]
            /\ cache_last' = [kind |-> "stored", key |-> key, matrix |-> cache[key]]
            /\ UNCHANGED cache
       ELSE /\ cache' = HashMapInsert(cache, key, matrix)
            /\ cache_ret' = [kind |-> "Arc", key |-> key, matrix |-> matrix]
            /\ cache_last' = [kind |-> "stored", key |-> key, matrix |-> matrix]
    /\ UNCHANGED max_entries
    /\ UNCHANGED <<sched_vars, engine_vars, token_vars, transport_vars, batch_vars,
                   circuit_vars, bp_vars, rb_vars, server_vars>>

\* optimization.rs:306-308 (clear)
cache_clear ==
    /\ cache' = <<>>
    /\ cache_ret' = [kind |-> "unit"]
    /\ cache_last' = [kind |-> "clear"]
    /\ UNCHANGED max_entries
    /\ UNCHANGED <<sched_vars, engine_vars, token_vars, transport_vars, batch_vars,
                   circuit_vars, bp_vars, rb_vars, server_vars>>

CacheNext ==
    \/ \E key \in CacheKeys : cache_get(key)
    \/ \E key \in CacheKeys, matrix \in Matrices, first_key \in CacheKeys :
           cache_insert(key, matrix, first_key)
    \/ \E key \in CacheKeys, matrix \in Matrices : get_or_compute(key, matrix)
    \/ cache_clear

\* =========================================================================
\* Specifications
\* =========================================================================
InitSched == SchedInit /\ EngineIdle /\ BackpressureNew(1) /\ ReplayBufferNew(1) /\ ServerIdle /\ TokenIdle /\ TransportIdle /\ BatchIdle /\ CircuitIdle /\ ExecutionIdle /\ CacheIdle

SpecSched == InitSched /\ [][SchedNext]_vars

\* The quantum job operations alone; the classical ready queue stays empty.
SpecQuantumJobs == InitSched /\ [][QuantumNext]_vars

\* The quantum job operations with jobs submitted for ever, the threads calling
\* start_next_quantum_job again and again and every running job completed.
SpecSchedFair == InitSched /\ [][SustainedNext]_vars /\ SchedulerKeepsBeingInvoked

InitEngine == SchedIdle /\ EngineInit /\ BackpressureNew(1) /\ ReplayBufferNew(1) /\ ServerIdle /\ TokenIdle /\ TransportIdle /\ BatchIdle /\ CircuitIdle /\ ExecutionIdle /\ CacheIdle

SpecEngine == InitEngine /\ [][EngineNext]_vars

SpecEngineCalls == InitEngine /\ [][EngineCallsNext]_vars

SpecEngineTimeouts == InitEngine /\ [][EngineTimeoutsNext]_vars

InitToken ==
    /\ SchedIdle /\ EngineIdle /\ BackpressureNew(1) /\ ReplayBufferNew(1) /\ ServerIdle
    /\ CancellationTokenNew /\ TransportIdle /\ BatchIdle /\ CircuitIdle /\ ExecutionIdle /\ CacheIdle

\* The token operations alone, with no task inside cancelled().
SpecTokenState == InitToken /\ [][TokenStateNext]_vars

\* A started cancel() reaches its notify_waiters, and a task inside cancelled()
\* that can take a step takes it: tokio polls every task that is ready.
SpecToken ==
    /\ InitToken
    /\ [][TokenNext]_vars
    /\ WF_vars(cancel_notify_waiters)
    /\ \A w \in Waiters : WF_vars(cancelled_step(w))

\* The job lifecycles: the scheduler's quantum jobs, submitted with the priority
\* QuantumJobContext::new gives them, and the engine's jobs. The scheduler and
\* the engine are separate objects that share no state: a run drives one of them.
JobsNext ==
    \/ (Len(active_jobs) = 0 /\ (submit_quantum_job(Normal) \/ StartCompleteNext))
    \/ (Created = 0 /\ (\A t \in Threads : sched_pc[t] = "idle") /\ EngineNext)

InitJobs == SchedInit /\ EngineInit /\ BackpressureNew(1) /\ ReplayBufferNew(1) /\ ServerIdle /\ TokenIdle /\ TransportIdle /\ BatchIdle /\ CircuitIdle /\ ExecutionIdle /\ CacheIdle

SpecJobs == InitJobs /\ [][JobsNext]_vars

InitBackpressure ==
    /\ TokenIdle /\ TransportIdle /\ BatchIdle /\ CircuitIdle /\ ExecutionIdle /\ CacheIdle
    /\ SchedIdle /\ EngineIdle /\ ReplayBufferNew(1) /\ ServerIdle
    /\ \E t \in 1..MaxThreshold : BackpressureNew(t)

SpecBackpressure == InitBackpressure /\ [][BackpressureNext]_vars

\* The handler with release() called at any time.
SpecPressure == InitBackpressure /\ [][PressureNext]_vars

InitAggregator ==
    /\ TokenIdle /\ TransportIdle /\ BatchIdle /\ CircuitIdle /\ ExecutionIdle /\ CacheIdle
    /\ SchedIdle /\ EngineIdle /\ BackpressureNew(1) /\ ReplayBufferNew(1)
    /\ MeasurementStreamServerNew(1)
    /\ \E k \in 1..MaxEmitInterval : StreamAggregatorNew(k)

SpecAggregator == InitAggregator /\ [][AggregatorNext]_vars

InitHybrid ==
    /\ TokenIdle
    /\ SchedIdle /\ EngineIdle /\ BackpressureNew(1) /\ ReplayBufferNew(1) /\ ServerIdle
    /\ BatchIdle /\ CircuitIdle /\ ExecutionIdle /\ CacheIdle
    /\ \E w \in 1..MaxWindow : HybridTransportNew(w)

\* The transport with its evaluator, force_mode called at any time.
SpecHybrid == InitHybrid /\ [][HybridNext]_vars

\* The same, force_mode called between evaluations only.
SpecHybridSequential == InitHybrid /\ [][SequentialHybridNext]_vars

\* The datagram channel with its concurrent senders.
SpecDatagram == InitHybrid /\ [][DatagramNext]_vars

InitBatch ==
    /\ TokenIdle /\ TransportIdle /\ BatchIdle /\ CircuitIdle /\ ExecutionIdle /\ CacheIdle
    /\ SchedIdle /\ BackpressureNew(1) /\ ReplayBufferNew(1) /\ ServerIdle
    /\ EngineInit

\* One execute_batch or execute_batch_with_progress call and its tasks.
SpecBatch == InitBatch /\ [][BatchNext]_vars

InitCircuit ==
    /\ TokenIdle /\ TransportIdle /\ BatchIdle /\ ExecutionIdle /\ CacheIdle
    /\ SchedIdle /\ EngineIdle /\ BackpressureNew(1) /\ ReplayBufferNew(1) /\ ServerIdle
    /\ \E qubits \in 1..MaxQubits : QuantumCircuitStructureNew(qubits)

\* A circuit under construction.
SpecBuilder == InitCircuit /\ [][BuilderNext]_vars

\* A circuit built and executed.
SpecCircuit == InitCircuit /\ [][CircuitNext]_vars

InitGates ==
    /\ TokenIdle /\ TransportIdle /\ BatchIdle /\ CircuitIdle /\ CacheIdle
    /\ SchedIdle /\ EngineIdle /\ BackpressureNew(1) /\ ReplayBufferNew(1) /\ ServerIdle
    /\ execute_shots = 0 /\ execution_result = NoResult
    /\ \E qubits \in 1..MaxRegister : StateVectorNew(qubits)

\* Gates applied one after the other to a state buffer.
SpecGates == InitGates /\ [][GatesNext]_vars

InitCache ==
    /\ TokenIdle /\ TransportIdle /\ BatchIdle /\ CircuitIdle /\ ExecutionIdle
    /\ SchedIdle /\ EngineIdle /\ BackpressureNew(1) /\ ReplayBufferNew(1) /\ ServerIdle
    /\ \E entries \in 1..MaxEntries : GateMatrixCacheNew(entries)

\* A cache of 1..MaxEntries entries, its calls made one after the other.
SpecCache == InitCache /\ [][CacheNext]_vars

InitReplay ==
    /\ TokenIdle /\ TransportIdle /\ BatchIdle /\ CircuitIdle /\ ExecutionIdle /\ CacheIdle
    /\ SchedIdle /\ EngineIdle /\ BackpressureNew(1) /\ ServerIdle
    /\ \E c \in 0..MaxReplay : ReplayBufferNew(c)

SpecReplay == InitReplay /\ [][ReplayNext]_vars

\* The streaming server with any configuration, its calls running concurrently.
InitStream ==
    /\ TokenIdle /\ TransportIdle /\ BatchIdle /\ CircuitIdle /\ ExecutionIdle /\ CacheIdle
    /\ SchedIdle /\ EngineIdle
    /\ \E t \in 1..MaxThreshold : BackpressureNew(t)
    /\ \E c \in 0..MaxReplay : ReplayBufferNew(c)
    /\ \E i \in 1..MaxInterval : StreamAggregatorNew(i)
    /\ \E b \in 1..MaxMailbox : MeasurementStreamServerNew(b)

SpecStream == InitStream /\ [][StreamNext]_vars

\* The same server, its calls made one after the other.
SpecStreamSequential == InitStream /\ [][SequentialStreamNext]_vars

\* The steps a started subscribe call takes by itself.
subscribe_step(s) == subscribe_get_all(s) \/ subscribe_replay(s) \/ subscribe_register(s)

\* Sequential calls in which a subscribe call that can go on does go on: the
\* task running it is polled whenever it is ready.
SpecSubscribeReturns ==
    /\ InitStream
    /\ [][SequentialStreamNext]_vars
    /\ \A s \in Subscribers : WF_vars(subscribe_step(s))

\* =========================================================================
\* Properties
\* =========================================================================
Range(s) == {s[i] : i \in 1..Len(s)}

\* ---- C1: the running set never holds more than max_concurrent_quantum_jobs
\* jobs, whatever the interleaving of start_next_quantum_job, submit_quantum_job
\* and complete_quantum_job.
C1_RunningWithinCap ==
    Len(running_quantum_jobs) <= max_concurrent_quantum_jobs

\* ---- C2: a job's status only moves forward along
\* queued -> running -> (completed | failed | cancelled); no status is revisited
\* and a terminal status is never left. Scheduler jobs call running "Executing".
TerminalStatus == {"Completed", "Failed", "Cancelled"}

Lifecycle(status) == IF status = "Executing" THEN "Running" ELSE status

LifecycleStep(old, new) ==
    \/ old = new
    \/ old = "Queued" /\ new \in {"Running"} \cup TerminalStatus
    \/ old = "Running" /\ new \in TerminalStatus

\* Every copy of a scheduler job: queued, popped by a thread, running, returned
\* by the last complete_quantum_job.
SchedJobCopies ==
    Range(quantum_job_queue) \cup Range(running_quantum_jobs)
      \cup {sched_job[t] : t \in Threads} \cup {complete_ret}

C2_StatusOnlyMovesForward ==
    [][ /\ active_jobs' # active_jobs =>
             \A j \in EngineJobs :
                 LifecycleStep(active_jobs[j].status, active_jobs'[j].status)
        /\ <<quantum_job_queue, running_quantum_jobs, sched_job, complete_ret>>'
              # <<quantum_job_queue, running_quantum_jobs, sched_job, complete_ret>> =>
             LET before == SchedJobCopies
                 after == SchedJobCopies'
             IN \A old \in before : \A new \in after :
                    old.id = new.id =>
                        LifecycleStep(Lifecycle(old.status), Lifecycle(new.status)) ]_vars

\* An engine job whose cancel raced with the running worker and that has reached
\* a terminal status.
C2_Witness ==
    \E j \in EngineJobs :
        /\ cancel_seen_at[j] = "executing"
        /\ active_jobs[j].status \in TerminalStatus
        /\ worker_pc[j] = "done"

\* ---- C3: a job cancelled after its status became Running and before its
\* execution finished ends with status Cancelled and the Cancelled error on its
\* result channel.
C3_CancelledWhileRunningEndsCancelled ==
    \A j \in EngineJobs :
        (cancel_seen_at[j] = "executing" /\ worker_pc[j] = "done")
            => /\ active_jobs[j].status = "Cancelled"
               /\ result_channel[j] = "Cancelled"

\* ---- C4: the pending count never exceeds the threshold, whatever the
\* interleaving of check_and_wait and release.
C4_PendingWithinThreshold == pending_count <= threshold

\* ---- C5: every publish_measurement call gives back the backpressure slot it
\* took: whenever no publish is in flight the pending count is 0 (so that
\* more publishes than the threshold can all return).
C5_PendingZeroWhenNoPublishInFlight ==
    (\A t \in Publishers : pub_pc[t] = "idle") => pending_count = 0

\* ---- C6: fan-out never waits for a subscriber's mailbox: a publish that meets
\* a full mailbox drops the message for that subscriber and goes on.
C6_FanOutNeverWaits == \A t \in Publishers : ~WaitingForMailbox(t)

\* ---- C7: a subscriber of a registered job that asked for measurement events
\* has every event published after it was created in its mailbox at most once,
\* and exactly once when the publish has returned (the channel never drops: a
\* send into a full mailbox waits).
Count(seq, m) == Cardinality({i \in 1..Len(seq) : seq[i] = m})

C7_EachLaterEventExactlyOnce ==
    \A s \in Subscribers :
        (sub_pc[s] = "done" /\ sub_call[s].job_found /\ sub_call[s].include_measurements)
            => \A t \in Publishers :
                   (Published(t) /\ pub_event[t] > sub_call[s].created_at)
                       => LET n == Count(mailbox[s], MeasurementEventMsg(pub_event[t]))
                          IN /\ n <= 1
                             /\ pub_ret[t] = "Ok" => n = 1

\* ---- C8: a replay buffer never holds more messages than its capacity, and its
\* message id is the number of pushes so far (one more per push, untouched by
\* eviction and clear).
C8_LenWithinCapacityAndIdCountsPushes ==
    /\ Len(rb_buffer) <= rb_capacity
    /\ rb_message_id = rb_pushes

\* ---- C9: with calls made one after the other, a subscriber created after N
\* events were published for a registered job with replay capacity B (mailbox
\* capacity at least B) has in its mailbox the shot indices of the last
\* min(N, B) of them in ascending order, followed by those of the events
\* published since, in order.
IsMeasurementEvent(m) == m.kind = "MeasurementEvent"

ShotIndices(seq) ==
    LET events == SelectSeq(seq, IsMeasurementEvent)
    IN [i \in 1..Len(events) |-> events[i].n]

Min(a, b) == IF a <= b THEN a ELSE b

FromTo(lo, hi) == [i \in 1..(hi - lo + 1) |-> lo + i - 1]

C9_ReplayThenLiveInOrder ==
    \A s \in Subscribers :
        ( /\ NoCallActive
          /\ sub_pc[s] = "done"
          /\ sub_call[s].job_found
          /\ sub_call[s].include_measurements
          /\ message_buffer_size >= rb_capacity )
            => LET N == sub_call[s].created_at
               IN ShotIndices(mailbox[s])
                     = FromTo(N - Min(N, rb_capacity) + 1, events_started)

\* ---- C10: every successful start_next_quantum_job returns a job whose
\* priority is at least that of every job still queued, and every
\* dequeue_next_process removes a process whose priority is at least that of
\* every process still queued.
C10_StartsHighestPriority ==
    [][ /\ \A t \in Threads :
             (sched_pc[t] = "pop" /\ sched_pc'[t] = "insert")
                => \A q \in Range(quantum_job_queue') :
                       sched_job'[t].priority >= q.priority
        /\ Len(classical_ready_queue') < Len(classical_ready_queue)
             => \A p \in Range(classical_ready_queue) \ Range(classical_ready_queue') :
                    \A q \in Range(classical_ready_queue') :
                        p.priority >= q.priority ]_vars

\* Background, Critical, Normal were submitted in that order; Critical (the
\* second submission) has just been started ahead of Normal and Background.
C10_Witness ==
    \E t \in Threads :
        /\ sched_pc[t] = "insert"
        /\ sched_job[t].id = 2
        /\ sched_job[t].priority = Critical
        /\ Len(quantum_job_queue) = 2
        /\ quantum_job_queue[1].priority = Normal
        /\ quantum_job_queue[2].priority = Background

\* ---- C11: both queues are stable: an entry that leaves a queue
\* (dequeue_next_process, start_next_quantum_job's pop) was enqueued before
\* every entry of its priority still queued (ids count the enqueues), and every
\* enqueue puts the new entry just after the last entry of the same or a
\* higher priority.
C11_QueuesAreStable ==
    [][ /\ \A t \in Threads :
             (sched_pc[t] = "pop" /\ sched_pc'[t] = "insert")
                => \A q \in Range(quantum_job_queue') :
                       q.priority = sched_job'[t].priority => sched_job'[t].id < q.id
        /\ Len(classical_ready_queue') < Len(classical_ready_queue)
             => \A q \in Range(classical_ready_queue') :
                    q.priority = Head(classical_ready_queue).priority
                        => Head(classical_ready_queue).id < q.id
        /\ jobs_submitted' # jobs_submitted
             => \E p \in QuantumJobPriority :
                    quantum_job_queue' =
                        InsertByPriority(quantum_job_queue,
                                         NewQuantumJob(jobs_submitted', p))
        /\ procs_enqueued' # procs_enqueued
             => \E p \in ProcessPriority :
                    classical_ready_queue' =
                        InsertByPriority(classical_ready_queue,
                                         NewProcess(procs_enqueued', p)) ]_vars

\* Normal, Critical, Normal were submitted in that order; Critical is running
\* and the first Normal job has just been started ahead of the second.
C11_Witness ==
    \E t \in Threads :
        /\ sched_pc[t] = "insert"
        /\ sched_job[t].id = 1
        /\ sched_job[t].priority = Normal
        /\ Len(quantum_job_queue) = 1
        /\ quantum_job_queue[1].id = 3
        /\ quantum_job_queue[1].priority = Normal
        /\ \E i \in 1..Len(running_quantum_jobs) :
               running_quantum_jobs[i].priority = Critical

\* ---- C12: completion is idempotent. A job leaves the scheduler only through
\* a complete_quantum_job that takes it out of the running set and returns it
\* Completed with completed_at set, all other jobs and the queue untouched; a
\* completed id is never found again, and a complete_quantum_job that finds
\* nothing returns nothing and changes nothing.
LiveIds ==
    {j.id : j \in Range(quantum_job_queue) \cup Range(running_quantum_jobs)}
      \cup {sched_job[t].id : t \in {u \in Threads : sched_job[u] # NoJob}}

\* The ids that were submitted and have left the scheduler.
CompletedIds == (1..jobs_submitted) \ LiveIds

C12_CompletionIsIdempotent ==
    [][ LET before == LiveIds
            after == LiveIds'
            left == before \ after
        IN /\ \A i \in left :
                LET pos == PositionInRunning(i)
                IN /\ pos # 0
                   /\ complete_ret' = [running_quantum_jobs[pos] EXCEPT
                                          !.status = "Completed", !.completed_at = TRUE]
                   /\ running_quantum_jobs' = RemoveAt(running_quantum_jobs, pos)
                   /\ UNCHANGED <<quantum_job_queue, sched_job>>
           /\ (complete_ret' # NoJob /\ complete_ret' # complete_ret)
                => complete_ret'.id \in left
           /\ \A i \in after \ before : i > jobs_submitted
           /\ (complete_ret' = NoJob /\ complete_ret # NoJob)
                => UNCHANGED <<quantum_job_queue, running_quantum_jobs, sched_job,
                               classical_ready_queue>> ]_vars

\* Job 1 was completed, a later complete_quantum_job returned nothing, and
\* job 2 is still running.
C12_Witness ==
    /\ 1 \in CompletedIds
    /\ complete_ret = NoJob
    /\ PositionInRunning(2) # 0

\* ---- C13: at most max_concurrent_jobs circuit executions are in progress at
\* any time, whether started by submit_job, execute_circuit_async or a batch:
\* every execution in progress holds one of the max_concurrent_jobs permits.
ExecutionsInProgress ==
    Cardinality({j \in EngineJobs : worker_pc[j] = "executing"})
      + Cardinality({c \in Calls : calls[c].pc = "executing"})

\* Workers and calls between acquire_owned() and the drop of their permit.
PermitHolders ==
    Cardinality({j \in EngineJobs :
                    worker_pc[j] \in {"check_cancel", "set_running", "executing"}})
      + Cardinality({c \in Calls : calls[c].pc = "executing"})

C13_AtMostMaxConcurrentExecutions ==
    /\ ExecutionsInProgress <= max_concurrent_jobs
    /\ job_semaphore >= 0
    /\ job_semaphore + PermitHolders = max_concurrent_jobs

\* With one permit: a submitted job is executing while an
\* execute_circuit_async call waits for the permit.
C13_Witness ==
    /\ max_concurrent_jobs = 1
    /\ job_semaphore = 0
    /\ \E j \in EngineJobs : worker_pc[j] = "executing"
    /\ \E c \in Calls : calls[c].pc = "acquire"

\* ---- C14: a job whose token was set before its worker obtained its permit
\* is never executed and never Running; once its worker is over the Cancelled
\* error is on its result channel and its permit is back in the semaphore.
C14_CancelledBeforePermitNeverRuns ==
    /\ \A j \in EngineJobs :
           cancel_seen_at[j] = "acquire"
               => /\ active_jobs[j].status = "Queued"
                  /\ exec_outcome[j] = "none"
                  /\ worker_pc[j] \in {"acquire", "check_cancel", "done"}
                  /\ worker_pc[j] = "done" => result_channel[j] = "Cancelled"
    /\ job_semaphore + PermitHolders = max_concurrent_jobs

\* With one permit: job 1 was cancelled while queued and its worker has ended
\* with Cancelled; job 2 has taken the permit and is executing.
C14_Witness ==
    /\ max_concurrent_jobs = 1
    /\ Len(active_jobs) = 2
    /\ cancel_seen_at[1] = "acquire"
    /\ worker_pc[1] = "done"
    /\ result_channel[1] = "Cancelled"
    /\ worker_pc[2] = "executing"

\* ---- C15: a result wait whose timeout expired returned Timeout and cancelled
\* the job: after await_with_timeout returned Timeout the job's token is set,
\* and an execute_with_timeout call that returned Timeout does not go on to
\* execute its circuit to the end.
C15_TimeoutCancelsTheJob ==
    /\ \A j \in EngineJobs : await_ret[j] = "Timeout" => active_jobs[j].cancelled
    /\ \A c \in Calls : calls[c].ret = "Timeout" => calls[c].outcome # "ok"

\* C16: once cancel() has been called on a token, every task that is inside
\* cancelled() on that token (or on a token sharing its state) eventually
\* returns, however the two calls interleave.
C16_CancelWakesAllWaiters ==
    \A w \in Waiters :
        (waiter_pc[w] # "idle" /\ is_cancelled(waiter_token[w]))
            ~> (waiter_pc[w] = "returned")

\* is_cancelled(k) read in the state a step leads to.
is_cancelled_after(k) == cancelled'[tokens'[k].shared]

\* C17: a token made by new() starts not cancelled; a child or clone reads the
\* same flag as the token it was derived from, so it starts with its parent's
\* value and is cancelled whenever the parent is; a flag that is set stays set.
C17_ChildSharesStateAndFlagStaysSet ==
    [][ /\ \A k \in Tokens : is_cancelled(k) => is_cancelled_after(k)
        /\ \A k \in 1..Len(tokens') :
              /\ (k \notin Tokens /\ tokens'[k].parent = 0) => ~is_cancelled_after(k)
              /\ tokens'[k].parent # 0 =>
                    is_cancelled_after(k) = is_cancelled_after(tokens'[k].parent)
        /\ \A k \in Tokens :
              (cancel_token' = k /\ cancel_pc' = "notify_waiters") =>
                  \A d \in 1..Len(tokens') :
                      (d = k \/ tokens'[d].parent = k) => is_cancelled_after(d) ]_vars

C17_Witness ==
    \E k \in Tokens :
        /\ tokens[k].parent # 0
        /\ cancel_token = tokens[k].parent
        /\ is_cancelled(k)
        /\ \E f \in Tokens : ~is_cancelled(f)

\* C18: once complete_job has returned Ok, every publish_measurement for the job
\* returns JobNotFound without getting past the job lookup, and nothing more is
\* added to the replay buffer, the aggregator or, by a publish, to a mailbox.
C18_PublishAfterCompleteIsJobNotFound ==
    [][ complete_job_ret = "Ok" =>
          /\ pub_pc' = pub_pc
          /\ \A t \in Publishers : pub_ret'[t] # pub_ret[t] => pub_ret'[t] = "JobNotFound"
          /\ rb_buffer' = rb_buffer /\ rb_message_id' = rb_message_id
          /\ total_count' = total_count
          /\ mailbox' # mailbox => \E s \in Subscribers : sub_pc[s] = "replay" ]_vars

\* C19: in every mailbox the measurement events are in shot-index order, and a
\* StatisticsUpdate whose completed-shot count is c comes after the event with
\* shot index c: no event with shot index c or less follows it.
C19_EventsInOrderAndStatisticsAfterThem ==
    \A s \in Subscribers :
        \A i, j \in 1..Len(mailbox[s]) :
            (i < j /\ IsMeasurementEvent(mailbox[s][j])) =>
                /\ IsMeasurementEvent(mailbox[s][i]) => mailbox[s][i].n <= mailbox[s][j].n
                /\ mailbox[s][i].kind = "StatisticsUpdate" => mailbox[s][i].n < mailbox[s][j].n

\* C20: a mailbox receives only the kinds of message its subscription asks
\* for, from the live fan-out and from the replay done by subscribe: a
\* MeasurementEvent only with include_measurements, a StatisticsUpdate only
\* with include_statistics.
C20_OnlyRequestedKinds ==
    \A s \in Subscribers :
        \A i \in 1..Len(mailbox[s]) :
            /\ IsMeasurementEvent(mailbox[s][i]) => sub_call[s].include_measurements
            /\ mailbox[s][i].kind = "StatisticsUpdate" => sub_call[s].include_statistics

\* C21: subscribe always returns: a started call ends with the subscriber
\* registered and its receiver handed out, also when the replay buffer holds
\* more messages than the new mailbox can take.
C21_SubscribeAlwaysReturns ==
    \A s \in Subscribers :
        (sub_pc[s] \notin {"idle", "done"}) ~> (sub_pc[s] = "done")

\* C22: no task is suspended while it holds a lock of the server: a task
\* parked in backpressure does not hold the jobs lock, and a task waiting to
\* write into a mailbox does not hold the subscribers lock.
C22_NoLockHeldWhileSuspended ==
    \A t \in Publishers :
        /\ bp_pc[t] = "parked" => ~JobsReadLocked(t)
        /\ WaitingForMailbox(t) => ~SubscribersReadLockedBy(t)

\* C23: when a publish_measurement call returns, no subscriber whose receiver
\* had been dropped before the call is left in the job's subscriber list, so
\* subscriber_count counts only subscribers whose receiver is alive, as after
\* unsubscribe; the handles of the other subscribers stay.
C23_DroppedReceiverIsUnsubscribedByNextPublish ==
    [][ \A t \in Publishers :
          (pub_pc[t] = "send" /\ pub_pc'[t] = "idle") =>
              /\ \A s \in Subscribers : receiver_dropped[s] => ~Subscribed(s)'
              /\ \A s \in Subscribers : (Subscribed(s) /\ ~receiver_dropped[s]) => Subscribed(s)'
              /\ subscriber_count' =
                    Cardinality({s \in Subscribers : Subscribed(s) /\ ~receiver_dropped[s]}) ]_vars

\* The sequence number of a retained message: ReplayPush gives the k-th message
\* pushed the payload number k - 1.
SequenceNumber(m) == m.n + 1

\* C24: get_since(s) is the retained messages numbered above s, in insertion
\* order: empty when s >= current_message_id, the whole buffer when s is older
\* than the oldest retained message.
C24_GetSinceIsTheSuffixAboveSeq ==
    \A s \in 0..(MaxPushes + 1) :
        LET newer(m) == SequenceNumber(m) > s
        IN /\ get_since(s) = SelectSeq(rb_buffer, newer)
           /\ s >= current_message_id => get_since(s) = <<>>
           /\ (\A i \in 1..Len(rb_buffer) : SequenceNumber(rb_buffer[i]) > s)
                 => get_since(s) = rb_buffer

\* Messages were pushed, the buffer was cleared and refilled in part, and
\* get_since returns a proper, non-empty part of what is retained.
C24_Witness ==
    /\ rb_pushes > rb_capacity + 1
    /\ Len(rb_buffer) >= 2
    /\ Len(rb_buffer) < rb_capacity
    /\ \E s \in 1..MaxPushes : get_since(s) # <<>> /\ get_since(s) # rb_buffer

RECURSIVE SumOver(_, _)
SumOver(map, keys) ==
    IF keys = {} THEN 0
    ELSE LET k == CHOOSE x \in keys : TRUE
         IN map[k] + SumOver(map, keys \ {k})

\* C25: after N add_measurement calls since new() or the last reset(), the
\* total is N and the per-bitstring counts add up to N.
C25_TotalAndCountsEqualAdds ==
    /\ total_count = agg_adds
    /\ SumOver(bitstring_counts, DOMAIN bitstring_counts) = agg_adds

\* Several events with the same bitstring and one with another were added,
\* past the first statistics signal.
C25_Witness ==
    /\ agg_adds >= 3
    /\ agg_adds > emit_interval
    /\ Cardinality(DOMAIN bitstring_counts) = 2
    /\ \E k \in DOMAIN bitstring_counts : bitstring_counts[k] >= 2

\* C26: the n-th add_measurement since new() or reset() returns true exactly
\* when n is a multiple of the emit interval k, and the cursor is at 0 after it;
\* otherwise the cursor has moved on by one.
C26_SignalsEveryKAdds ==
    [][ agg_adds' = agg_adds + 1 =>
          /\ add_measurement_returns <=> (agg_adds' % emit_interval = 0)
          /\ since_last_emit' = IF agg_adds' % emit_interval = 0 THEN 0
                                 ELSE since_last_emit + 1 ]_vars

\* With k = 5 the tenth add has just returned true.
C26_Witness ==
    /\ emit_interval = 5
    /\ agg_adds = 10
    /\ since_last_emit = 0

\* C27: an evaluation moves Datagram to Stream exactly when the loss rate it
\* computed is above 5%, Stream to Datagram exactly when it is below 1%, and
\* leaves Hybrid alone; it adds 1 to mode_switches when it changed the mode
\* and nothing otherwise.
C27_SwitchesOnlyAcrossThresholds ==
    [][(eval_pc = "write" /\ eval_pc' = "idle") =>
        /\ transport_mode = "Datagram" =>
             transport_mode' = (IF AbovePercent(current_loss_rate, 5)
                                THEN "Stream" ELSE "Datagram")
        /\ transport_mode = "Stream" =>
             transport_mode' = (IF BelowPercent(current_loss_rate, 1)
                                THEN "Datagram" ELSE "Stream")
        /\ transport_mode = "Hybrid" => transport_mode' = "Hybrid"
        /\ mode_switches' = mode_switches
                            + (IF transport_mode' # transport_mode THEN 1 ELSE 0)]_vars

\* C28: a mode switch made by evaluate_and_adapt after an earlier one comes at
\* least evaluation_window after it.
C28_SwitchesAreAWindowApart ==
    [][(/\ eval_pc = "write" /\ eval_pc' = "idle"
        /\ transport_mode' # transport_mode
        /\ mode_switches > 0)
       => elapsed >= evaluation_window]_vars

\* C29: the numbers that send_measurement returned are pairwise distinct and
\* increase in the order in which the calls took them, so a call started after
\* another call returned gets a larger number; no two calls, returned or in
\* progress, hold the same number.
C29_SequenceNumbersDistinctAndIncreasing ==
    /\ \A i, j \in DOMAIN dg_assigned :
           i < j => dg_assigned[i].seq < dg_assigned[j].seq
    /\ \A t \in Senders :
           dg_ret[t].kind = "Ok" =>
               \E i \in DOMAIN dg_assigned :
                   /\ dg_assigned[i].sender = t
                   /\ dg_assigned[i].returned = "Ok"
                   /\ dg_assigned[i].seq = dg_ret[t].seq
    /\ \A t, u \in Senders :
           (t # u /\ dg_ret[t].kind = "Ok" /\ dg_ret[u].kind = "Ok")
               => dg_ret[t].seq # dg_ret[u].seq
    /\ \A t, u \in Senders :
           (t # u /\ dg_pc[t] # "idle" /\ dg_pc[u] # "idle") => dg_seq[t] # dg_seq[u]

\* Every task is inside send_measurement at the same time, past the send,
\* after one call returned Ok and another failed for want of a receiver.
C29_Witness ==
    /\ Len(dg_assigned) = MaxSends
    /\ \A t \in Senders : dg_pc[t] = "count"
    /\ \E i \in DOMAIN dg_assigned : dg_assigned[i].returned = "Ok"
    /\ \E i \in DOMAIN dg_assigned : dg_assigned[i].returned = "AsyncError"

\* C30: the list execute_batch returns is as long as its input and its i-th
\* element is the result of the i-th pair, the output of the i-th task,
\* whatever the order in which the tasks finished.
C30_ResultsInInputOrder ==
    batch_pc = "returned" =>
        /\ Len(batch_results) = Len(batch_circuits)
        /\ \A i \in DOMAIN batch_circuits :
               /\ batch_results[i] = batch_tasks[i].result
               /\ batch_results[i].kind \in {"Ok", "AsyncError"}
               /\ batch_results[i].kind = "Ok" =>
                      /\ batch_results[i].circuit_id = batch_circuits[i].circuit
                      /\ batch_results[i].measurements = batch_circuits[i].shots

\* A batch of MaxBatch pairs, all different, returned after its tasks
\* finished in the reverse of the input order, all with a result.
C30_Witness ==
    /\ batch_pc = "returned"
    /\ Len(batch_circuits) = MaxBatch
    /\ \A i, j \in DOMAIN batch_circuits : i # j => batch_circuits[i] # batch_circuits[j]
    /\ \A k \in DOMAIN batch_finished : batch_finished[k] = MaxBatch + 1 - k
    /\ \A i \in DOMAIN batch_results : batch_results[i].kind = "Ok"

\* C31: an execute call with shots = 0 returned the InvalidShotCount error and
\* no execution result.
C31_ZeroShotsRejected ==
    (execution_result # NoResult /\ execute_shots = 0) =>
        execution_result.kind = "InvalidShotCount"

\* C32: in every circuit every recorded target is a qubit of the register and
\* the targets of a multi-qubit gate are pairwise distinct.
C32_CircuitWellFormed ==
    \A k \in DOMAIN gate_application_instances :
        LET targets == gate_application_instances[k].target_quantum_bits
        IN /\ \A p \in DOMAIN targets : targets[p] \in 0..(number_of_quantum_bits - 1)
           /\ \A p, q \in DOMAIN targets : p # q => targets[p] # targets[q]

\* C33: an execution with shots = s >= 1 returns exactly s measurement events;
\* the i-th (from 0) has shot_index i and the id of the job, and its bitstring
\* has one bit for each qubit of the circuit.
C33_OneEventPerShotInOrder ==
    execute_shots >= 1 =>
        /\ execution_result.kind = "ExecutionResult"
        /\ DOMAIN execution_result.measurements = 1..execute_shots
        /\ \A i \in 1..execute_shots :
               /\ execution_result.measurements[i].shot_index = i - 1
               /\ execution_result.measurements[i].job_id = execution_result.job_id
               /\ DOMAIN execution_result.measurements[i].bitstring
                      = 1..number_of_quantum_bits
               /\ \A b \in 1..number_of_quantum_bits :
                      execution_result.measurements[i].bitstring[b] \in {0, 1}

\* The execution of a circuit of MaxQubits qubits and MaxGates gates
\* returned MaxShots events, with different bitstrings among them, one of them
\* with a leading 0 bit.
C33_Witness ==
    /\ execute_shots = MaxShots
    /\ execution_result.kind = "ExecutionResult"
    /\ number_of_quantum_bits = MaxQubits
    /\ Len(gate_application_instances) = MaxGates
    /\ DOMAIN execution_result.measurements = 1..MaxShots
    /\ \E i, j \in 1..MaxShots :
           /\ execution_result.measurements[i].bitstring
                  # execution_result.measurements[j].bitstring
           /\ execution_result.measurements[i].bitstring[1] = 0

\* The circuit Hadamard on qubit 0, then CNOT(control 0, target 1), on 2 qubits.
BellCircuit ==
    /\ number_of_quantum_bits = 2
    /\ gate_application_instances =
           <<[gate |-> "hadamard_gate", theta |-> 0, target_quantum_bits |-> <<0>>],
             [gate |-> "controlled_not_gate", theta |-> 0, target_quantum_bits |-> <<0, 1>>]>>

\* The squared magnitude of amplitude i of a state is numerator / denominator.
Probability(state, i, numerator, denominator) ==
    norm_sqr(state.amplitudes[i])
        = <<(numerator * Pow2(2 * state.scale)) \div denominator, 0>>

\* C35: the state computed for Hadamard on qubit 0 then CNOT(0, 1) from the
\* 2-qubit zero state has squared magnitude 1/2 at 00 and at 11 and amplitude
\* zero at 01 and 10, and every bitstring sampled from it is 00 or 11.
C35_BellStateAmplitudes ==
    [][(execution_result' # execution_result /\ BellCircuit) =>
        LET state == execution_result'.final_state
        IN /\ execution_result'.kind = "ExecutionResult"
           /\ Probability(state, 0, 1, 2)
           /\ Probability(state, 3, 1, 2)
           /\ state.amplitudes[1] = CZero
           /\ state.amplitudes[2] = CZero
           /\ \A i \in DOMAIN execution_result'.measurements :
                  execution_result'.measurements[i].bitstring \in {<<0, 0>>, <<1, 1>>}]_vars

\* That circuit was executed with MaxShots shots and both 00 and 11 were
\* sampled.
C35_Witness ==
    /\ BellCircuit
    /\ execution_result.kind = "ExecutionResult"
    /\ execute_shots = MaxShots
    /\ \E i, j \in DOMAIN execution_result.measurements :
           /\ execution_result.measurements[i].bitstring = <<0, 0>>
           /\ execution_result.measurements[j].bitstring = <<1, 1>>

\* The sum of the squared magnitudes of amplitudes 0..n-1 of a state, over the
\* denominator 4^scale.
RECURSIVE SumNormSqr(_, _)
SumNormSqr(state, n) ==
    IF n = 0 THEN <<0, 0>>
    ELSE RAdd(SumNormSqr(state, n - 1), norm_sqr(state.amplitudes[n - 1]))

C34_ReleaseLowersPressure ==
    [][/\ (threshold = 3 /\ pending_count = 2) => is_under_pressure
       /\ (threshold = 3 /\ pending_count = 2 /\ pending_count' = 1) => ~is_under_pressure']_vars

\* C40: the pending count equals the acquisitions minus the releases and lies
\* in 0..threshold.
C40_PendingCountNeverUnderflows ==
    /\ pending_count = SumOver(bp_held, Publishers)
    /\ pending_count \in 0..threshold

\* C37: a cache built with max_entries = M never holds more than M entries,
\* and the get that follows an insert or a get_or_compute of a key returns the
\* matrix stored or computed for that key.
C37_CacheBounded ==
    [][/\ Cardinality(DOMAIN cache') <= max_entries'
       /\ \A key \in CacheKeys :
              (cache_last.kind = "stored" /\ cache_last.key = key /\ cache_get(key)) =>
                  cache_ret' = [kind |-> "Some", key |-> key, matrix |-> cache_last.matrix]]_vars

\* The threads that have popped a job and not yet pushed it onto the running
\* set; each of them holds the write lock of the queue.
InFlight == {t \in Threads : sched_job[t] # NoJob}

\* How many times id occurs in the queue, in the running set and in the hands
\* of a thread.
Occurrences(id) ==
    Cardinality({i \in DOMAIN quantum_job_queue : quantum_job_queue[i].id = id})
      + Cardinality({i \in DOMAIN running_quantum_jobs : running_quantum_jobs[i].id = id})
      + Cardinality({t \in InFlight : sched_job[t].id = id})

C38_EveryJobEventuallyStarted ==
    \A id \in 1..MaxJobs : InQuantumQueue(id) ~> ~InQuantumQueue(id)

====
